---- MODULE Spec2Model ----
(***************************************************************************)
(* Model of the Chekin Inbox SDK channel protocol: the ChekinCommunicator  *)
(* (message dispatch, outbound send, route synchronisation, handshake,     *)
(* teardown), the onload wiring of ChekinInboxSDK.createIframe and the     *)
(* route codec (host hash <-> iframe route).                               *)
(*                                                                         *)
(* Strings are sequences of one-character strings, so that slice,          *)
(* startsWith, encodeURIComponent, decodeURIComponent and the RegExp match *)
(* are computed character by character as the JavaScript does.             *)
(***************************************************************************)
EXTENDS Integers, Sequences, FiniteSets, TLC

VARIABLES
  phase,                    \* "created": iframe element built, load not yet handled; "active": Communicator constructed
  pendingPostMessageConfig, \* ChekinInboxSDK.pendingPostMessageConfig
  contentWindow,            \* TRUE iff iframe.contentWindow is a window (FALSE: null, detached frame)
  hasReplaceState,          \* TRUE iff window.history.replaceState is available
  eventListeners,           \* ChekinCommunicator.eventListeners: type -> sequence of callbacks
  currentRoute,             \* ChekinCommunicator.currentRoute
  routeSyncEnabled,         \* ChekinCommunicator.routeSyncEnabled
  hashPrefix,               \* ChekinCommunicator.hashPrefix
  msgHandlers,              \* number of 'message' handlers of the Communicator registered on window
  hashHandlers,             \* number of 'hashchange' handlers of the Communicator registered on window
  hostHash,                 \* window.location.hash ("" or "#...")
  pendingHashEvents,        \* hashchange events fired and not yet dispatched
  posted,                   \* messages posted to iframe.contentWindow by the last operation, in order
  hashWrites,               \* number of writes of the host hash made by the last operation
  logged,                   \* calls made to the logging sink by the last operation
  invoked,                  \* listeners invoked by the last operation, in order
  listenerErrors,           \* listeners whose exception was caught by the last operation
  threw,                    \* TRUE iff the last operation ended with an uncaught exception
  last,                     \* the last operation and its input
  codec,                    \* state of the route codec runs (SpecCodec)
  serial,                   \* state of the URL serializer runs (SpecUrl)
  sdk,                      \* the ChekinInboxSDK instance and the outputs of its last call (SpecSdk)
  loop                      \* events in flight between host, Engine and iframe (SpecLoop)

vars == <<phase, pendingPostMessageConfig, contentWindow, hasReplaceState,
          eventListeners, currentRoute, routeSyncEnabled, hashPrefix, msgHandlers,
          hashHandlers, hostHash, pendingHashEvents, posted, hashWrites, logged,
          invoked, listenerErrors, threw, last, codec, serial, sdk, loop>>

-----------------------------------------------------------------------------
(* Bounds of the model *)

MaxPendingHash == 1
MaxListeners == 2
MaxHashHandlers == 2
MaxPathLen == 3

-----------------------------------------------------------------------------
(* Strings *)

\* the value of an absent field / missing argument
Undefined == <<"undefined">>

ROUTE_CHANGED == "chekin:route-changed"
HEIGHT_CHANGED == "chekin:height-changed"
ERROR == "chekin:error"
CONNECTION_ERROR == "chekin:connection-error"
HANDSHAKE == "chekin:handshake"
CONFIG_UPDATE == "chekin:config-update"
INIT_ROUTE == "chekin:init-route"

DefaultHashPrefix == <<"c", "h", "e", "k", "i", "n">>

\* String.prototype.startsWith('#')
StartsWithHash(s) == Len(s) > 0 /\ s[1] = "#"

\* String.prototype.slice(1)
Slice1(s) == IF Len(s) = 0 THEN <<>> ELSE Tail(s)

\* route.startsWith('#') ? route : `#${route}`
NormalizeRoute(route) == IF StartsWithHash(route) THEN route ELSE <<"#">> \o route

\* encodeURIComponent on one character: unreserved characters stay, the rest
\* becomes the percent-escape of its UTF-8 byte
EncodeChar(c) ==
  CASE c = "/" -> <<"%", "2", "F">>
    [] c = "#" -> <<"%", "2", "3">>
    [] c = "%" -> <<"%", "2", "5">>
    [] c = "=" -> <<"%", "3", "D">>
    [] c = "+" -> <<"%", "2", "B">>
    [] c = " " -> <<"%", "2", "0">>
    [] c = "{" -> <<"%", "7", "B">>
    [] OTHER -> <<c>>

\* the string is encoded by halves, which keeps the evaluation shallow for
\* the long strings of the URL serializer
RECURSIVE EncodeURIComponent(_)
EncodeURIComponent(s) ==
  IF s = <<>> THEN <<>>
  ELSE IF Len(s) = 1 THEN EncodeChar(s[1])
  ELSE LET h == Len(s) \div 2
       IN  EncodeURIComponent(SubSeq(s, 1, h)) \o EncodeURIComponent(SubSeq(s, h + 1, Len(s)))

\* the character a percent-escape stands for; "" when the two characters are
\* no escape of a character of the model's alphabet
HexChar(a, b) ==
  CASE a = "2" /\ b = "F" -> "/"
    [] a = "2" /\ b = "3" -> "#"
    [] a = "2" /\ b = "5" -> "%"
    [] a = "3" /\ b = "D" -> "="
    [] a = "2" /\ b = "B" -> "+"
    [] a = "2" /\ b = "0" -> " "
    [] a = "7" /\ b = "B" -> "{"
    [] OTHER -> ""

\* decodeURIComponent: [ok |-> FALSE] stands for the URIError it throws on a
\* malformed escape
RECURSIVE DecodeURIComponent(_)
DecodeURIComponent(s) ==
  IF s = <<>> THEN [ok |-> TRUE, val |-> <<>>]
  ELSE IF Head(s) # "%"
    THEN LET rest == DecodeURIComponent(Tail(s))
         IN  [ok |-> rest.ok, val |-> <<Head(s)>> \o rest.val]
    ELSE IF Len(s) < 3 \/ HexChar(s[2], s[3]) = ""
      THEN [ok |-> FALSE, val |-> <<>>]
      ELSE LET rest == DecodeURIComponent(SubSeq(s, 4, Len(s)))
           IN  [ok |-> rest.ok, val |-> <<HexChar(s[2], s[3])>> \o rest.val]

(* new RegExp(`^${hashPrefix}=(.+)`): the prefix is read as a pattern, so   *)
(* '.' matches any character and 'x+' one or more x.                       *)
RECURSIVE Tokenize(_)
Tokenize(p) ==
  IF p = <<>> THEN <<>>
  ELSE IF Len(p) >= 2 /\ p[2] = "+"
    THEN <<[c |-> p[1], plus |-> TRUE]>> \o Tokenize(SubSeq(p, 3, Len(p)))
    ELSE <<[c |-> p[1], plus |-> FALSE]>> \o Tokenize(Tail(p))

CharMatches(pc, ch) == pc = "." \/ pc = ch

\* the positions where a match of toks that starts at s[i] can end (next index)
RECURSIVE MatchEnds(_, _, _)
MatchEnds(toks, s, i) ==
  IF toks = <<>> THEN {i}
  ELSE LET t == Head(toks)
       IN  IF ~t.plus
             THEN IF i <= Len(s) /\ CharMatches(t.c, s[i])
                    THEN MatchEnds(Tail(toks), s, i + 1)
                    ELSE {}
             ELSE UNION { MatchEnds(Tail(toks), s, k + 1) :
                            k \in { k \in i..Len(s) :
                                      \A m \in i..k : CharMatches(t.c, s[m]) } }

SetMax(S) == CHOOSE x \in S : \A y \in S : y <= x

\* hash.match(new RegExp(`^${prefix}=(.+)`)): group is routeMatch[1]
RouteMatch(prefix, hash) ==
  LET ends == { j \in MatchEnds(Tokenize(prefix \o <<"=">>), hash, 1) : j <= Len(hash) }
  IN  IF ends = {} THEN [matched |-> FALSE, group |-> <<>>]
      ELSE [matched |-> TRUE, group |-> SubSeq(hash, SetMax(ends), Len(hash))]

-----------------------------------------------------------------------------
(* The logging sink (ChekinLogger): the model records the calls made to it *)

LogEntry(level, message) == [level |-> level, message |-> message]

LogEvent(level, message, eventType) ==
  [level |-> level, message |-> message, eventType |-> eventType]

Log(e, entry) == [e EXCEPT !.logged = Append(@, entry)]

-----------------------------------------------------------------------------
(* window.addEventListener / removeEventListener, counted per event name.  *)
(* Function.prototype.bind returns a new function object at every call, so *)
(* the function handed to removeEventListener by the Communicator is never *)
(* the one that was handed to addEventListener.                            *)

BoundIsRegistered == FALSE

AddEventListener(n) == n + 1

RemoveEventListener(n, registered) == IF registered /\ n > 0 THEN n - 1 ELSE n

-----------------------------------------------------------------------------
(* ChekinCommunicator: each method is an operator from the state before    *)
(* the call (a record e) to the state after it.  e.threw records an        *)
(* exception that leaves the method.                                       *)

\* callbacks that throw when invoked
ThrowingCallbacks == {"cbThrow"}

Throws(cb) == cb \in ThrowingCallbacks

\* send without the test of contentWindow
SendUnchecked(e, message) ==
  Log([e EXCEPT !.posted = Append(@, message)],
      LogEvent("debug", "Message sent to iframe", message.type))

\* send(message)
Send(e, message) ==
  IF e.contentWindow
    THEN Log([e EXCEPT !.posted = Append(@, message)],
             LogEvent("debug", "Message sent to iframe", message.type))
    ELSE Log(e, LogEvent("warn", "Cannot send message: iframe contentWindow is not available",
                         message.type))

\* the host hash updateParentHash writes for a route
EncodeHash(prefix, route) ==
  LET cleanRoute == IF StartsWithHash(route) THEN Slice1(route) ELSE route
      encodedRoute == EncodeURIComponent(cleanRoute)
  IN  <<"#">> \o prefix \o <<"=">> \o encodedRoute

\* updateParentHash(route): history.replaceState fires no hashchange event,
\* an assignment to location.hash fires one when the fragment changes
UpdateParentHash(e, route) ==
  LET newHash == EncodeHash(e.hashPrefix, route)
  IN  IF e.hasReplaceState
        THEN [e EXCEPT !.hostHash = newHash, !.hashWrites = @ + 1]
        ELSE [e EXCEPT !.hostHash = newHash, !.hashWrites = @ + 1,
                       !.pendingHashEvents = IF newHash # e.hostHash THEN @ + 1 ELSE @]

\* syncRouteToIframe that stores and sends the route as it was given
SyncRouteToIframeRaw(e, route) ==
  LET e1 == [e EXCEPT !.currentRoute = route]
      e2 == Send(e1, [type |-> "route-sync", payload |-> [route |-> route]])
  IN  Log(e2, LogEntry("debug", "Route synchronized from parent to iframe"))

\* syncRouteToIframe(route)
SyncRouteToIframe(e, route) ==
  LET hashRoute == NormalizeRoute(route)
      e1 == [e EXCEPT !.currentRoute = hashRoute]
      e2 == Send(e1, [type |-> "route-sync", payload |-> [route |-> hashRoute]])
  IN  Log(e2, LogEntry("debug", "Route synchronized from parent to iframe"))

\* handleIframeRouteChange without the comparison with currentRoute
HandleIframeRouteChangeAlways(e, route) ==
  IF route = Undefined THEN [e EXCEPT !.threw = TRUE]
  ELSE LET hashRoute == NormalizeRoute(route)
       IN  Log(UpdateParentHash([e EXCEPT !.currentRoute = hashRoute], hashRoute),
               LogEntry("debug", "Route synchronized from iframe to parent"))

\* handleIframeRouteChange(route): route.startsWith is a TypeError on undefined
HandleIframeRouteChange(e, route) ==
  IF route = Undefined THEN [e EXCEPT !.threw = TRUE]
  ELSE LET hashRoute == NormalizeRoute(route)
       IN  IF hashRoute # e.currentRoute
             THEN Log(UpdateParentHash([e EXCEPT !.currentRoute = hashRoute], hashRoute),
                      LogEntry("debug", "Route synchronized from iframe to parent"))
             ELSE e

\* handleParentHashChange without the check of the route-sync flag
HandleParentHashChangeAlways(e) ==
  LET hash == Slice1(e.hostHash)
      routeMatch == RouteMatch(e.hashPrefix, hash)
  IN  IF routeMatch.matched
        THEN LET route == DecodeURIComponent(routeMatch.group)
             IN  IF ~route.ok THEN [e EXCEPT !.threw = TRUE]
                 ELSE IF route.val # e.currentRoute
                   THEN SyncRouteToIframe(e, route.val)
                   ELSE e
        ELSE e

\* handleParentHashChange()
HandleParentHashChange(e) ==
  IF ~e.routeSyncEnabled THEN e
  ELSE LET hash == Slice1(e.hostHash)
           routeMatch == RouteMatch(e.hashPrefix, hash)
       IN  IF routeMatch.matched
             THEN LET route == DecodeURIComponent(routeMatch.group)
                  IN  IF ~route.ok THEN [e EXCEPT !.threw = TRUE]
                      ELSE IF route.val # e.currentRoute
                        THEN SyncRouteToIframe(e, route.val)
                        ELSE e
             ELSE e

\* listeners.indexOf(callback): 0 stands for -1
IndexOf(listeners, callback) ==
  IF \E i \in 1..Len(listeners) : listeners[i] = callback
    THEN CHOOSE i \in 1..Len(listeners) :
           listeners[i] = callback /\ \A j \in 1..(i - 1) : listeners[j] # callback
    ELSE 0

\* listeners.splice(index, 1)
Splice1(listeners, index) ==
  SubSeq(listeners, 1, index - 1) \o SubSeq(listeners, index + 1, Len(listeners))

\* off that removes the latest registration of the callback
OffLatest(e, type, callback) ==
  LET listeners == e.eventListeners[type]
      hits == { i \in 1..Len(listeners) : listeners[i] = callback }
  IN  IF hits # {}
        THEN Log([e EXCEPT !.eventListeners[type] = Splice1(@, SetMax(hits))],
                 LogEvent("debug", "Event listener removed", type))
        ELSE e

\* off(type, callback)
Off(e, type, callback) ==
  LET index == IndexOf(e.eventListeners[type], callback)
  IN  IF index > 0
        THEN Log([e EXCEPT !.eventListeners[type] = Splice1(@, index)],
                 LogEvent("debug", "Event listener removed", type))
        ELSE e

\* the call of a listener without the try/catch around it
InvokeListenerUncaught(e, cb, type) ==
  LET e1 == [e EXCEPT !.invoked = Append(@, cb)]
  IN  IF Throws(cb) THEN [e1 EXCEPT !.threw = TRUE] ELSE e1

\* try { listener(payload) } catch (error) { logger.error(...) }
InvokeListener(e, cb, type) ==
  LET e1 == [e EXCEPT !.invoked = Append(@, cb)]
  IN  IF Throws(cb)
        THEN Log([e1 EXCEPT !.listenerErrors = Append(@, cb)],
                 LogEvent("error", "Error in Chekin event listener", type))
        ELSE e1

\* what a listener of the host page does when it is called: cbOffSelf removes
\* itself and cbOffA removes cbA, by a call of off from inside the listener
ListenerBody(e, cb, type) ==
  IF cb = "cbOffSelf" THEN Off(e, type, "cbOffSelf")
  ELSE IF cb = "cbOffA" THEN Off(e, type, "cbA")
  ELSE e

\* Array.prototype.forEach over the array held by the registry: the indices
\* 1..len are fixed when the iteration starts, the element at an index is read
\* when its turn comes, and an index the array no longer has is passed over
RECURSIVE ForEachListener(_, _, _, _)
ForEachListener(e, type, i, len) ==
  IF i > len \/ e.threw THEN e
  ELSE LET listeners == e.eventListeners[type]
       IN  IF i > Len(listeners) THEN ForEachListener(e, type, i + 1, len)
           ELSE ForEachListener(
                  ListenerBody(InvokeListener(e, listeners[i], type), listeners[i], type),
                  type, i + 1, len)

\* listeners.forEach(listener => ...): an exception that leaves the callback
\* of forEach ends the iteration
DispatchListeners(e, listeners, type) == ForEachListener(e, type, 1, Len(listeners))

\* a falsy string: undefined or ''
Falsy(s) == s = Undefined \/ s = <<>>

\* payload?.hash || payload?.fullUrl
PayloadRoute(payload) == IF Falsy(payload.hash) THEN payload.fullUrl ELSE payload.hash

\* the value of iframe.contentWindow as a window identity
ContentWindowOf(e) == IF e.contentWindow THEN "iframeWindow" ELSE "null"

\* handleMessage without the check of event.source
HandleMessageAnySource(e, event) ==
  LET e1 == Log(e, LogEvent("debug", "Communication event", event.type))
      e2 == IF event.type = ROUTE_CHANGED /\ e1.routeSyncEnabled
              THEN HandleIframeRouteChange(e1, PayloadRoute(event.payload))
              ELSE e1
  IN  IF e2.threw THEN e2
      ELSE DispatchListeners(e2, e2.eventListeners[event.type], event.type)

\* handleMessage(event)
HandleMessage(e, event) ==
  IF event.source # ContentWindowOf(e) THEN e
  ELSE LET e1 == Log(e, LogEvent("debug", "Communication event", event.type))
           e2 == IF event.type = ROUTE_CHANGED /\ e1.routeSyncEnabled
                   THEN HandleIframeRouteChange(e1, PayloadRoute(event.payload))
                   ELSE e1
       IN  IF e2.threw THEN e2
           ELSE DispatchListeners(e2, e2.eventListeners[event.type], event.type)

\* on(type, callback)
On(e, type, callback) ==
  Log([e EXCEPT !.eventListeners[type] = Append(@, callback)],
      LogEvent("debug", "Event listener added", type))

\* enableRouteSync(options)
EnableRouteSync(e, options) ==
  Log([e EXCEPT !.routeSyncEnabled = TRUE,
                !.hashPrefix = IF Falsy(options.hashPrefix) THEN DefaultHashPrefix
                               ELSE options.hashPrefix,
                !.hashHandlers = AddEventListener(@)],
      LogEntry("debug", "Route synchronization enabled"))

\* disableRouteSync()
DisableRouteSync(e) ==
  Log([e EXCEPT !.routeSyncEnabled = FALSE,
                !.hashHandlers = RemoveEventListener(@, BoundIsRegistered)],
      LogEntry("debug", "Route synchronization disabled"))

\* navigateToRoute that sends navigate whatever the route-sync flag
NavigateToRouteAlwaysNavigate(e, route) ==
  Log(Send(e, [type |-> "navigate", payload |-> [path |-> route]]),
      LogEntry("debug", "Programmatic navigation initiated"))

\* navigateToRoute(route)
NavigateToRoute(e, route) ==
  LET e1 == IF e.routeSyncEnabled
              THEN UpdateParentHash(SyncRouteToIframe(e, route), route)
              ELSE Send(e, [type |-> "navigate", payload |-> [path |-> route]])
  IN  Log(e1, LogEntry("debug", "Programmatic navigation initiated"))

\* sendInitialRoute()
SendInitialRoute(e) ==
  LET hash == Slice1(e.hostHash)
      routeMatch == RouteMatch(e.hashPrefix, hash)
  IN  IF routeMatch.matched
        THEN LET route == DecodeURIComponent(routeMatch.group)
             IN  IF ~route.ok THEN [e EXCEPT !.threw = TRUE]
                 ELSE LET hashRoute == NormalizeRoute(route.val)
                          e1 == [e EXCEPT !.currentRoute = hashRoute]
                          e2 == Send(e1, [type |-> INIT_ROUTE,
                                          payload |-> [route |-> hashRoute]])
                      IN  Log(e2, LogEntry("debug", "Initial route sent to iframe"))
        ELSE e

\* the outcome of reading a route from a host hash, as sendInitialRoute does:
\* nothing when the pattern does not match, a URIError, or the route it stores
DecodeHash(prefix, hash) ==
  LET e == SendInitialRoute([contentWindow |-> TRUE, hashPrefix |-> prefix,
                             hostHash |-> hash, currentRoute |-> Undefined,
                             posted |-> <<>>, logged |-> <<>>, threw |-> FALSE])
  IN  IF e.threw THEN [kind |-> "URIError", route |-> Undefined]
      ELSE IF e.posted = <<>> THEN [kind |-> "none", route |-> Undefined]
      ELSE [kind |-> "route", route |-> e.currentRoute]

\* the payload of the handshake: timestamp, sdk, version, origin
HandshakePayload ==
  [timestamp |-> "Date.now", sdk |-> "PACKAGE_INFO.name",
   version |-> "PACKAGE_INFO.version", origin |-> "window.location.origin"]

\* sendHandshake()
SendHandshake(e) ==
  LET e1 == Log(Send(e, [type |-> HANDSHAKE, payload |-> HandshakePayload]),
                LogEntry("debug", "Handshake sent to iframe"))
  IN  IF e1.routeSyncEnabled THEN SendInitialRoute(e1) ELSE e1

\* destroy without eventListeners.clear()
DestroyKeepRegistry(e) ==
  LET e1 == [e EXCEPT !.msgHandlers = RemoveEventListener(@, BoundIsRegistered)]
      e2 == IF e1.routeSyncEnabled
              THEN [e1 EXCEPT !.hashHandlers = RemoveEventListener(@, BoundIsRegistered)]
              ELSE e1
  IN  Log(e2, LogEntry("debug", "ChekinCommunicator destroyed"))

\* destroy()
Destroy(e) ==
  LET e1 == [e EXCEPT !.msgHandlers = RemoveEventListener(@, BoundIsRegistered)]
      e2 == IF e1.routeSyncEnabled
              THEN [e1 EXCEPT !.hashHandlers = RemoveEventListener(@, BoundIsRegistered)]
              ELSE e1
      e3 == [e2 EXCEPT !.eventListeners = [t \in DOMAIN @ |-> <<>>]]
  IN  Log(e3, LogEntry("debug", "ChekinCommunicator destroyed"))

-----------------------------------------------------------------------------
(* Inputs *)

EventTypes == {ROUTE_CHANGED, HEIGHT_CHANGED, ERROR, CONNECTION_ERROR}

\* the types the host page registers its own listeners for
UserTypes == {ROUTE_CHANGED}

\* the types of the messages the embedded application posts
InboundTypes == {ROUTE_CHANGED, HEIGHT_CHANGED}

UserCallbacks == {"cbA", "cbThrow"}

InputRoutes == { <<"/">>, <<"#", "/", "a">> }

\* payloads of inbound messages: {hash}, {hash: '', fullUrl}, an object with
\* neither field (such as {path} or a number), and null
Payloads ==
  { [kind |-> "object", hash |-> r, fullUrl |-> Undefined] : r \in InputRoutes }
    \cup { [kind |-> "object", hash |-> <<>>, fullUrl |-> <<"#", "/", "a">>],
           [kind |-> "object", hash |-> Undefined, fullUrl |-> Undefined],
           [kind |-> "null", hash |-> Undefined, fullUrl |-> Undefined] }

Sources == {"iframeWindow", "otherWindow", "null"}

\* the payload of a message that is no route change (a height, an error)
OpaquePayload == [kind |-> "object", hash |-> Undefined, fullUrl |-> Undefined]

\* the messages delivered to the window
InboundEvents ==
  { [source |-> s, type |-> t, payload |-> p] :
      s \in Sources, t \in InboundTypes, p \in Payloads }

\* a route change carries any of the payloads, another message an opaque one;
\* a window other than the iframe's posts one route change and one other message
Inbound ==
  { ev \in InboundEvents :
      /\ ev.type = ROUTE_CHANGED \/ ev.payload = OpaquePayload
      /\ \/ ev.source = "iframeWindow"
         \/ ev.payload = OpaquePayload
         \/ ev.payload.hash = <<"#", "/", "a">> }

\* hashes the host page or its user can put in the address bar: none, an
\* encoded route, a malformed escape, the prefix with an empty value
HostHashes ==
  { <<>>,
    <<"#">> \o DefaultHashPrefix \o <<"=", "%", "2", "F", "a">>,
    <<"#">> \o DefaultHashPrefix \o <<"=", "%">>,
    <<"#">> \o DefaultHashPrefix \o <<"=">> }

HashPrefixOptions == { Undefined }

NoConfig == [none |-> TRUE]

\* overflow payloads formatChekinUrl can return
PendingConfigs == { NoConfig, [styles |-> "deferred"] }

Configs ==
  { [routeSync |-> TRUE, onError |-> "onError", onConnectionError |-> "unset"],
    [routeSync |-> FALSE, onError |-> "onError", onConnectionError |-> "unset"] }

-----------------------------------------------------------------------------
(* State *)

\* the Communicator and its environment as a record, before an operation
Cur ==
  [contentWindow |-> contentWindow, hasReplaceState |-> hasReplaceState,
   eventListeners |-> eventListeners, currentRoute |-> currentRoute,
   routeSyncEnabled |-> routeSyncEnabled, hashPrefix |-> hashPrefix,
   msgHandlers |-> msgHandlers, hashHandlers |-> hashHandlers,
   hostHash |-> hostHash, pendingHashEvents |-> pendingHashEvents,
   posted |-> <<>>, hashWrites |-> 0, logged |-> <<>>, invoked |-> <<>>,
   listenerErrors |-> <<>>, threw |-> FALSE]

\* the state after an operation
Commit(e) ==
  /\ contentWindow' = e.contentWindow
  /\ hasReplaceState' = e.hasReplaceState
  /\ eventListeners' = e.eventListeners
  /\ currentRoute' = e.currentRoute
  /\ routeSyncEnabled' = e.routeSyncEnabled
  /\ hashPrefix' = e.hashPrefix
  /\ msgHandlers' = e.msgHandlers
  /\ hashHandlers' = e.hashHandlers
  /\ hostHash' = e.hostHash
  /\ pendingHashEvents' = e.pendingHashEvents
  /\ posted' = e.posted
  /\ hashWrites' = e.hashWrites
  /\ logged' = e.logged
  /\ invoked' = e.invoked
  /\ listenerErrors' = e.listenerErrors
  /\ threw' = e.threw

Op(name, arg) == [op |-> name, arg |-> arg]

NoArg == <<>>

CodecIdle == [stage |-> "idle"]

SerialIdle == [stage |-> "idle"]

SdkIdle == [stage |-> "idle"]

LoopIdle == [stage |-> "idle"]

\* the field initialisers of ChekinCommunicator, the iframe built by
\* createIframe and not yet loaded
Init ==
  /\ phase = "created"
  /\ pendingPostMessageConfig \in PendingConfigs
  /\ contentWindow = TRUE
  /\ hasReplaceState \in BOOLEAN
  /\ eventListeners = [t \in EventTypes |-> <<>>]
  /\ currentRoute = <<"#", "/">>
  /\ routeSyncEnabled = TRUE
  /\ hashPrefix = DefaultHashPrefix
  /\ msgHandlers = 0
  /\ hashHandlers = 0
  /\ hostHash \in HostHashes
  /\ pendingHashEvents = 0
  /\ posted = <<>>
  /\ hashWrites = 0
  /\ logged = <<>>
  /\ invoked = <<>>
  /\ listenerErrors = <<>>
  /\ threw = FALSE
  /\ last = Op("init", NoArg)
  /\ codec = CodecIdle
  /\ serial = SerialIdle
  /\ sdk = SdkIdle
  /\ loop = LoopIdle

-----------------------------------------------------------------------------
(* ChekinCommunicator constructor and the onload handler of createIframe *)

\* new ChekinCommunicator(iframe, config, logger)
Constructor(e, cfg) ==
  LET e1 == [e EXCEPT !.eventListeners = [t \in EventTypes |-> <<>>],
                      !.currentRoute = <<"#", "/">>,
                      !.routeSyncEnabled = TRUE,
                      !.hashPrefix = DefaultHashPrefix,
                      !.msgHandlers = AddEventListener(@)]
  IN  IF cfg.routeSync
        THEN Log(EnableRouteSync(e1, [hashPrefix |-> DefaultHashPrefix]),
                 LogEntry("debug", "ChekinCommunicator initialized with automatic route sync"))
        ELSE Log([e1 EXCEPT !.routeSyncEnabled = FALSE],
                 LogEntry("debug", "ChekinCommunicator initialized with route sync disabled"))

\* ChekinInboxSDK.setupEventListeners()
SetupEventListeners(e, cfg) ==
  LET e1 == On(e, HEIGHT_CHANGED, "sdkHeightChanged")
      e2 == IF cfg.onError # "unset" THEN On(e1, ERROR, cfg.onError) ELSE e1
  IN  IF cfg.onConnectionError # "unset"
        THEN On(e2, CONNECTION_ERROR, cfg.onConnectionError)
        ELSE e2

\* ChekinInboxSDK.sendPostMessageConfig()
SendPostMessageConfig(e, pending) ==
  IF pending = NoConfig THEN e
  ELSE Send(Log(e, LogEntry("debug", "Sending additional config via postMessage")),
            [type |-> CONFIG_UPDATE, payload |-> pending])

\* iframe.onload: the Communicator is built, the handshake sent, then the
\* pending overflow payload; an exception leaves the handler where it is raised
OnLoadSteps(e, cfg, pending) ==
  LET e1 == Log(e, LogEntry("info", "Iframe loaded successfully"))
      e2 == SetupEventListeners(Constructor(e1, cfg), cfg)
      e3 == SendHandshake(e2)
  IN  IF e3.threw THEN e3
      ELSE Log(SendPostMessageConfig(e3, pending),
               LogEntry("info", "SDK mounted to container"))

\* cfg is ChekinInboxSDK.config at the time of the load
OnLoad(cfg) ==
  /\ phase = "created"
  /\ contentWindow
  /\ LET e == OnLoadSteps(Cur, cfg, pendingPostMessageConfig)
     IN  /\ Commit(e)
         /\ pendingPostMessageConfig' =
              IF e.threw THEN pendingPostMessageConfig ELSE NoConfig
  /\ phase' = "active"
  /\ last' = Op("onload", NoArg)
  /\ UNCHANGED <<codec, serial, sdk, loop>>

-----------------------------------------------------------------------------
(* Events the window delivers *)

\* a message event: every registered 'message' handler of the Communicator runs
RECURSIVE RunMessageHandlers(_, _, _)
RunMessageHandlers(e, n, event) ==
  IF n = 0 THEN e
  ELSE LET r == HandleMessage([e EXCEPT !.threw = FALSE], event)
       IN  RunMessageHandlers([r EXCEPT !.threw = e.threw \/ r.threw], n - 1, event)

\* what the history records of a message event: whether its source is the
\* iframe's window and, when it is, its type and the route its payload
\* carries (payload?.hash || payload?.fullUrl)
EventDigest(e, event) ==
  IF event.source # ContentWindowOf(e)
    THEN [source |-> "rejected", type |-> "", route |-> Undefined]
    ELSE [source |-> event.source, type |-> event.type,
          route |-> IF event.type = ROUTE_CHANGED THEN PayloadRoute(event.payload)
                    ELSE Undefined]

MessageEvent(event) ==
      /\ phase = "active"
      /\ hasReplaceState \/ pendingHashEvents < MaxPendingHash
      /\ Commit(RunMessageHandlers(Cur, msgHandlers, event))
      /\ last' = Op("message", EventDigest(Cur, event))
      /\ UNCHANGED <<phase, pendingPostMessageConfig, codec, serial, sdk, loop>>

\* the host page, or its user, changes the fragment: a hashchange event is fired
HostHashChange(hash) ==
  /\ hash # hostHash
  /\ pendingHashEvents < MaxPendingHash
  /\ Commit([Cur EXCEPT !.hostHash = hash, !.pendingHashEvents = @ + 1])
  /\ last' = Op("hostHashChange", NoArg)
  /\ UNCHANGED <<phase, pendingPostMessageConfig, codec, serial, sdk, loop>>

\* a hashchange event: every registered 'hashchange' handler of the Communicator runs
RECURSIVE RunHashHandlers(_, _)
RunHashHandlers(e, n) ==
  IF n = 0 THEN e
  ELSE LET r == HandleParentHashChange([e EXCEPT !.threw = FALSE])
       IN  RunHashHandlers([r EXCEPT !.threw = e.threw \/ r.threw], n - 1)

HashChangeEvent ==
  /\ pendingHashEvents > 0
  /\ Commit(RunHashHandlers([Cur EXCEPT !.pendingHashEvents = @ - 1], hashHandlers))
  /\ last' = Op("hashchange", NoArg)
  /\ UNCHANGED <<phase, pendingPostMessageConfig, codec, serial, sdk, loop>>

\* the iframe is detached from the document: contentWindow becomes null
DetachIframe ==
  /\ phase = "active"
  /\ contentWindow
  /\ Commit([Cur EXCEPT !.contentWindow = FALSE])
  /\ last' = Op("detach", NoArg)
  /\ UNCHANGED <<phase, pendingPostMessageConfig, codec, serial, sdk, loop>>

-----------------------------------------------------------------------------
(* Calls of the public methods of the Communicator *)

Call(name, arg, e) ==
  /\ phase = "active"
  /\ Commit(e)
  /\ last' = Op(name, arg)
  /\ UNCHANGED <<phase, pendingPostMessageConfig, codec, serial, sdk, loop>>

RECURSIVE SumLen(_, _)
SumLen(f, S) ==
  IF S = {} THEN 0
  ELSE LET t == CHOOSE t \in S : TRUE IN Len(f[t]) + SumLen(f, S \ {t})

CallOn(type, callback) ==
  /\ SumLen(eventListeners, UserTypes) < MaxListeners
  /\ Call("on", NoArg, On(Cur, type, callback))

CallOff(type, callback) ==
  Call("off", NoArg, Off(Cur, type, callback))

\* send(message), as ChekinInboxSDK.updateConfig calls it
CallSend(message) ==
  Call("send", NoArg, Send(Cur, message))

CallEnableRouteSync(options) ==
  /\ hashHandlers < MaxHashHandlers
  /\ Call("enableRouteSync", NoArg, EnableRouteSync(Cur, options))

CallDisableRouteSync ==
  Call("disableRouteSync", NoArg, DisableRouteSync(Cur))

CallNavigateToRoute(route) ==
  /\ hasReplaceState \/ pendingHashEvents < MaxPendingHash
  /\ Call("navigateToRoute", route, NavigateToRoute(Cur, route))

\* the history records whether the call before this one was destroy() too
CallDestroy ==
  Call("destroy", [again |-> last.op = "destroy"], Destroy(Cur))

\* the message ChekinInboxSDK.updateConfig sends
UpdateMessage == [type |-> CONFIG_UPDATE, payload |-> [styles |-> "updated"]]

Next ==
  \/ \E cfg \in Configs : OnLoad(cfg)
  \/ \E event \in Inbound : MessageEvent(event)
  \/ \E h \in HostHashes : HostHashChange(h)
  \/ HashChangeEvent
  \/ DetachIframe
  \/ \E t \in UserTypes, cb \in UserCallbacks : CallOn(t, cb)
  \/ \E t \in UserTypes, cb \in UserCallbacks : CallOff(t, cb)
  \/ CallSend(UpdateMessage)
  \/ \E prefix \in HashPrefixOptions : CallEnableRouteSync([hashPrefix |-> prefix])
  \/ CallDisableRouteSync
  \/ \E r \in InputRoutes : CallNavigateToRoute(r)
  \/ CallDestroy

Spec == Init /\ [][Next]_vars

-----------------------------------------------------------------------------
(* The listener registry on its own: a loaded Communicator on which the    *)
(* host page registers and removes callbacks while route changes arrive.   *)

MaxRegistry == 3

\* off is also called for a type no listener was registered for
OffTypes == UserTypes \cup {CONNECTION_ERROR}

RegistryConfig ==
  [routeSync |-> TRUE, onError |-> "onError", onConnectionError |-> "unset"]

RegistryMessages ==
  { [source |-> "iframeWindow", type |-> ROUTE_CHANGED,
     payload |-> [kind |-> "object", hash |-> r, fullUrl |-> Undefined]] :
       r \in InputRoutes }

InitRegistry ==
  /\ Init
  /\ pendingPostMessageConfig = NoConfig
  /\ hasReplaceState
  /\ hostHash = <<>>

RegistryOn(type, callback) ==
  /\ SumLen(eventListeners, UserTypes) < MaxRegistry
  /\ Call("on", [type |-> type, callback |-> callback], On(Cur, type, callback))

\* the history records the registry as it was before the call
RegistryOff(type, callback) ==
  Call("off", [type |-> type, callback |-> callback, before |-> eventListeners],
       Off(Cur, type, callback))

NextRegistry ==
  \/ OnLoad(RegistryConfig)
  \/ \E t \in UserTypes, cb \in UserCallbacks : RegistryOn(t, cb)
  \/ \E t \in OffTypes, cb \in UserCallbacks : RegistryOff(t, cb)
  \/ \E event \in RegistryMessages : MessageEvent(event)

SpecRegistry == InitRegistry /\ [][NextRegistry]_vars

-----------------------------------------------------------------------------
(* Listeners that call off while a message is dispatched: a loaded         *)
(* Communicator with listeners of the host page for route changes, some of *)
(* which remove a listener of the same type when they are called.          *)

ReentrantCallbacks == {"cbA", "cbB", "cbOffSelf", "cbOffA"}

\* on(type, callback) for a callback that is not registered yet
ReentrantOn(callback) ==
  /\ Len(eventListeners[ROUTE_CHANGED]) < MaxRegistry
  /\ IndexOf(eventListeners[ROUTE_CHANGED], callback) = 0
  /\ Call("on", [type |-> ROUTE_CHANGED, callback |-> callback],
          On(Cur, ROUTE_CHANGED, callback))

\* a message event; the history records the listeners of its type as they
\* were when the dispatch began
ReentrantMessage(event) ==
  /\ phase = "active"
  /\ hasReplaceState \/ pendingHashEvents < MaxPendingHash
  /\ Commit(RunMessageHandlers(Cur, msgHandlers, event))
  /\ last' = Op("dispatch", [type |-> event.type, before |-> eventListeners[event.type]])
  /\ UNCHANGED <<phase, pendingPostMessageConfig, codec, serial, sdk, loop>>

NextReentrant ==
  \/ OnLoad(RegistryConfig)
  \/ \E cb \in ReentrantCallbacks : ReentrantOn(cb)
  \/ \E event \in RegistryMessages : ReentrantMessage(event)

SpecReentrant == InitRegistry /\ [][NextReentrant]_vars

-----------------------------------------------------------------------------
(* Host hash handling on its own: a loaded Communicator whose prefix the   *)
(* host page may replace through enableRouteSync while the fragment of the *)
(* address bar changes.                                                    *)

\* enableRouteSync(options): no prefix given, or a prefix read as a pattern
HashPrefixes == { Undefined, <<"r", "+">> }

\* fragments of the address bar: none, an empty value, routes under the
\* default prefix, under the prefix r+ and under rr
PrefixHashes ==
  { <<>>,
    <<"#">> \o DefaultHashPrefix \o <<"=">>,
    <<"#">> \o DefaultHashPrefix \o <<"=", "%", "2", "F", "a">>,
    <<"#", "r", "+", "=", "%", "2", "F", "a">>,
    <<"#", "r", "r", "=", "%", "2", "F", "a">> }

InitHash ==
  /\ Init
  /\ pendingPostMessageConfig = NoConfig
  /\ hasReplaceState

NextHash ==
  \/ OnLoad(RegistryConfig)
  \/ \E prefix \in HashPrefixes : CallEnableRouteSync([hashPrefix |-> prefix])
  \/ \E h \in PrefixHashes : HostHashChange(h)
  \/ HashChangeEvent
  \/ CallDisableRouteSync

SpecHash == InitHash /\ [][NextHash]_vars

-----------------------------------------------------------------------------
(* The route codec run on its own: a path is encoded into the host hash as *)
(* updateParentHash writes it, and the hash is read back as                *)
(* sendInitialRoute reads it.                                              *)

PathAlphabet == {"#", "/", "a", "%"}

RECURSIVE SeqsUpTo(_, _)
SeqsUpTo(S, n) ==
  IF n = 0 THEN { <<>> }
  ELSE LET shorter == SeqsUpTo(S, n - 1)
       IN  shorter \cup { Append(q, c) : q \in shorter, c \in S }

CodecPaths == SeqsUpTo(PathAlphabet, MaxPathLen)

\* the default prefix and one given to enableRouteSync({hashPrefix: 'r+'})
CodecPrefixes == { DefaultHashPrefix, <<"r", "+">> }

engineVars == <<phase, pendingPostMessageConfig, contentWindow, hasReplaceState,
                eventListeners, currentRoute, routeSyncEnabled, hashPrefix,
                msgHandlers, hashHandlers, hostHash, pendingHashEvents, posted,
                hashWrites, logged, invoked, listenerErrors, threw, last>>

InitCodec ==
  /\ phase = "created"
  /\ pendingPostMessageConfig = NoConfig
  /\ contentWindow = TRUE
  /\ hasReplaceState = TRUE
  /\ eventListeners = [t \in EventTypes |-> <<>>]
  /\ currentRoute = <<"#", "/">>
  /\ routeSyncEnabled = TRUE
  /\ hashPrefix = DefaultHashPrefix
  /\ msgHandlers = 0
  /\ hashHandlers = 0
  /\ hostHash = <<>>
  /\ pendingHashEvents = 0
  /\ posted = <<>>
  /\ hashWrites = 0
  /\ logged = <<>>
  /\ invoked = <<>>
  /\ listenerErrors = <<>>
  /\ threw = FALSE
  /\ last = Op("init", NoArg)
  /\ serial = SerialIdle
  /\ sdk = SdkIdle
  /\ loop = LoopIdle
  /\ codec \in { [stage |-> "input", path |-> p, prefix |-> x,
                  hash |-> Undefined, decoded |-> Undefined] :
                   p \in CodecPaths, x \in CodecPrefixes }

\* updateParentHash(path) with this.hashPrefix = prefix
CodecEncode ==
  /\ codec.stage = "input"
  /\ codec' = [codec EXCEPT
                 !.stage = "encoded",
                 !.hash = UpdateParentHash([Cur EXCEPT !.hashPrefix = codec.prefix],
                                           codec.path).hostHash]
  /\ UNCHANGED <<engineVars, serial, sdk, loop>>

\* sendInitialRoute() with window.location.hash = the hash written
CodecDecode ==
  /\ codec.stage = "encoded"
  /\ codec' = [codec EXCEPT !.stage = "decoded",
                            !.decoded = DecodeHash(codec.prefix, codec.hash)]
  /\ UNCHANGED <<engineVars, serial, sdk, loop>>

NextCodec == CodecEncode \/ CodecDecode

SpecCodec == InitCodec /\ [][NextCodec]_vars

-----------------------------------------------------------------------------
(* formatChekinUrl: the configuration is serialized into the iframe URL;   *)
(* what does not fit is returned as the overflow payload                   *)
(* (postMessageConfig).                                                    *)

\* URL_LENGTH_LIMITS.SAFE_LIMIT
SAFE_LIMIT == 2000

\* the length from which an encoded styles / stylesLink value is deferred
InlineLimit == 500

CdnPrefix ==
  <<"h", "t", "t", "p", "s", ":", "/", "/", "c", "d", "n", ".", "c", "h",
    "e", "k", "i", "n", ".", "c", "o", "m", "/", "i", "n", "b", "o", "x",
    "-", "s", "d", "k", "/">>

CdnSuffix ==
  <<"/", "i", "n", "d", "e", "x", ".", "h", "t", "m", "l">>

ExplicitBaseUrl ==
  <<"h", "t", "t", "p", "s", ":", "/", "/", "h", "o", "s", "t", ".", "e",
    "x", "a", "m", "p", "l", "e", "/", "i", "n", "b", "o", "x", "/">>

Latest == <<"l", "a", "t", "e", "s", "t">>

\* the keys of VersionMapper
VersionMapper == { Latest, <<"d", "e", "v", "e", "l", "o", "p", "m", "e", "n", "t">>,
                   <<"d", "e", "v">> }

\* the property names every object inherits from Object.prototype; a lookup
\* VersionMapper[name] of one of them gives a function or an object
ObjectPrototypeNames ==
  { <<"c", "o", "n", "s", "t", "r", "u", "c", "t", "o", "r">>,
    <<"t", "o", "S", "t", "r", "i", "n", "g">>,
    <<"v", "a", "l", "u", "e", "O", "f">>,
    <<"h", "a", "s", "O", "w", "n", "P", "r", "o", "p", "e", "r", "t", "y">>,
    <<"i", "s", "P", "r", "o", "t", "o", "t", "y", "p", "e", "O", "f">>,
    <<"p", "r", "o", "p", "e", "r", "t", "y", "I", "s", "E", "n", "u", "m", "e", "r", "a", "b", "l", "e">>,
    <<"t", "o", "L", "o", "c", "a", "l", "e", "S", "t", "r", "i", "n", "g">>,
    <<"_", "_", "p", "r", "o", "t", "o", "_", "_">> }

\* VersionMapper[version] is truthy: an own key (each value is a non-empty
\* string) or an inherited property
HasMappedVersion(version) ==
  version \in VersionMapper \/ version \in ObjectPrototypeNames

\* lines 10-14: the path segment of a version tag
NormalizedVersion(version) ==
  IF HasMappedVersion(version) THEN version
  ELSE IF Len(version) > 0 /\ version[1] = "v" THEN version
  ELSE <<"v">> \o version

\* getBaseUrl(version)
GetBaseUrl(version) ==
  CdnPrefix \o NormalizedVersion(version) \o CdnSuffix

\* the names of the query parameters
ParamApiKey == <<"a", "p", "i", "K", "e", "y">>
ParamLang == <<"l", "a", "n", "g">>
ParamAutoHeight == <<"a", "u", "t", "o", "H", "e", "i", "g", "h", "t">>
ParamStylesLink == <<"s", "t", "y", "l", "e", "s", "L", "i", "n", "k">>
ParamStyles == <<"s", "t", "y", "l", "e", "s">>

\* String(value) of a boolean
BoolString(b) ==
  IF b = "true" THEN <<"t", "r", "u", "e">> ELSE <<"f", "a", "l", "s", "e">>

\* the application/x-www-form-urlencoded serializer of URLSearchParams on one
\* character: a space becomes '+', '%' and the other reserved characters a
\* percent-escape
FormEncodeChar(c) == IF c = " " THEN <<"+">> ELSE EncodeChar(c)

RECURSIVE FormEncode(_)
FormEncode(s) ==
  IF s = <<>> THEN <<>>
  ELSE IF Len(s) = 1 THEN FormEncodeChar(s[1])
  ELSE LET h == Len(s) \div 2
       IN  FormEncode(SubSeq(s, 1, h)) \o FormEncode(SubSeq(s, h + 1, Len(s)))

\* new URL(baseUrl): the base and the list of query parameters
NewUrl(baseUrl) == [base |-> baseUrl, params |-> <<>>]

HasParam(url, key) == \E i \in 1..Len(url.params) : url.params[i].key = key

\* url.searchParams.set(key, value)
SearchParamsSet(url, key, value) ==
  IF HasParam(url, key)
    THEN LET i == CHOOSE i \in 1..Len(url.params) : url.params[i].key = key
         IN  [url EXCEPT !.params[i].value = value]
    ELSE [url EXCEPT !.params = Append(@, [key |-> key, value |-> value])]

RECURSIVE SerializeParams(_)
SerializeParams(params) ==
  IF params = <<>> THEN <<>>
  ELSE LET q == Head(params)
       IN  FormEncode(q.key) \o <<"=">> \o FormEncode(q.value)
             \o (IF Len(params) > 1 THEN <<"&">> ELSE <<>>)
             \o SerializeParams(Tail(params))

\* url.toString()
Href(url) ==
  IF url.params = <<>> THEN url.base
  ELSE url.base \o <<"?">> \o SerializeParams(url.params)

\* an object of Partial<ChekinHostSDKConfig>: its keys and their values
EmptyObject ==
  [keys |-> {}, stylesLink |-> Undefined, styles |-> Undefined,
   defaultLanguage |-> Undefined]

\* lines 31-53: the base address and the essential parameters
EssentialUrl(config) ==
  LET version == IF Falsy(config.version) THEN Latest ELSE config.version
      baseUrl == IF Falsy(config.baseUrl) THEN GetBaseUrl(version) ELSE config.baseUrl
      u1 == SearchParamsSet(NewUrl(baseUrl), ParamApiKey, config.apiKey)
      u2 == IF config.defaultLanguage # Undefined
              THEN SearchParamsSet(u1, ParamLang, config.defaultLanguage)
              ELSE u1
  IN  IF config.autoHeight # "unset"
        THEN SearchParamsSet(u2, ParamAutoHeight, BoolString(config.autoHeight))
        ELSE u2

\* lines 55-80: stylesLink and styles are inlined or deferred
InlineOrDefer(config) ==
  LET s0 == [url |-> EssentialUrl(config), postMessageConfig |-> EmptyObject,
             isLengthLimited |-> FALSE]
      s1 == IF Falsy(config.stylesLink) THEN s0
            ELSE LET encodedStylesLink == EncodeURIComponent(config.stylesLink)
                 IN  IF Len(encodedStylesLink) < InlineLimit
                       THEN [s0 EXCEPT !.url = SearchParamsSet(@, ParamStylesLink,
                                                               encodedStylesLink)]
                       ELSE [s0 EXCEPT !.postMessageConfig.keys = @ \cup {"stylesLink"},
                                       !.postMessageConfig.stylesLink = config.stylesLink,
                                       !.isLengthLimited = TRUE]
  IN  IF Falsy(config.styles) THEN s1
      ELSE LET encodedStyles == EncodeURIComponent(config.styles)
           IN  IF Len(encodedStyles) < InlineLimit
                 THEN [s1 EXCEPT !.url = SearchParamsSet(@, ParamStyles, encodedStyles)]
                 ELSE [s1 EXCEPT !.postMessageConfig.keys = @ \cup {"styles"},
                                 !.postMessageConfig.styles = config.styles,
                                 !.isLengthLimited = TRUE]

\* formatChekinUrl without the guard of the safe limit
FormatChekinUrlNoGuard(config) ==
  LET st == InlineOrDefer(config)
  IN  [url |-> st.url,
       postMessageConfig |-> IF st.postMessageConfig.keys # {} THEN st.postMessageConfig
                             ELSE NoConfig,
       isLengthLimited |-> st.isLengthLimited]

\* formatChekinUrl that returns the overflow object even when it is empty
FormatChekinUrlAlwaysPayload(config) ==
  LET st == InlineOrDefer(config)
      baseUrl == st.url.base
  IN  IF Len(Href(st.url)) > SAFE_LIMIT
        THEN [url |-> SearchParamsSet(NewUrl(baseUrl), ParamApiKey, config.apiKey),
              postMessageConfig |->
                [st.postMessageConfig EXCEPT !.keys = @ \cup {"defaultLanguage"},
                                             !.defaultLanguage = config.defaultLanguage],
              isLengthLimited |-> TRUE]
        ELSE [url |-> st.url,
              postMessageConfig |-> st.postMessageConfig,
              isLengthLimited |-> st.isLengthLimited]

\* formatChekinUrl(config)
FormatChekinUrl(config) ==
  LET st == InlineOrDefer(config)
      baseUrl == st.url.base
  IN  IF Len(Href(st.url)) > SAFE_LIMIT
        THEN [url |-> SearchParamsSet(NewUrl(baseUrl), ParamApiKey, config.apiKey),
              postMessageConfig |->
                [st.postMessageConfig EXCEPT !.keys = @ \cup {"defaultLanguage"},
                                             !.defaultLanguage = config.defaultLanguage],
              isLengthLimited |-> TRUE]
        ELSE [url |-> st.url,
              postMessageConfig |-> IF st.postMessageConfig.keys # {}
                                      THEN st.postMessageConfig
                                      ELSE NoConfig,
              isLengthLimited |-> st.isLengthLimited]

(* Inputs of the serializer *)

ShortKeyLen == 10
LongKeyLen == 300

Repeat(c, n) == [i \in 1..n |-> c]

\* a value of n letters, and a value of '{' characters (three characters
\* each once encoded) filled up with letters to the encoded length n
PlainValue(n) == Repeat("a", n)
BracedValue(n) == Repeat("{", n \div 3) \o Repeat("a", n % 3)

ApiKeys == { Repeat("k", n) : n \in {ShortKeyLen, LongKeyLen, SAFE_LIMIT} }

StylesValues ==
  { Undefined, PlainValue(InlineLimit - 1), PlainValue(InlineLimit),
    BracedValue(InlineLimit - 1), BracedValue(InlineLimit) }

StylesLinkValues ==
  { Undefined, BracedValue(InlineLimit - 1), BracedValue(InlineLimit) }

UrlConfigs ==
  [apiKey : ApiKeys, baseUrl : {Undefined, ExplicitBaseUrl}, version : {Undefined},
   defaultLanguage : {Undefined, <<"e", "n">>}, autoHeight : {"unset", "true", "false"},
   styles : StylesValues, stylesLink : StylesLinkValues]

InitUrl ==
  /\ phase = "created"
  /\ pendingPostMessageConfig = NoConfig
  /\ contentWindow = TRUE
  /\ hasReplaceState = TRUE
  /\ eventListeners = [t \in EventTypes |-> <<>>]
  /\ currentRoute = <<"#", "/">>
  /\ routeSyncEnabled = TRUE
  /\ hashPrefix = DefaultHashPrefix
  /\ msgHandlers = 0
  /\ hashHandlers = 0
  /\ hostHash = <<>>
  /\ pendingHashEvents = 0
  /\ posted = <<>>
  /\ hashWrites = 0
  /\ logged = <<>>
  /\ invoked = <<>>
  /\ listenerErrors = <<>>
  /\ threw = FALSE
  /\ last = Op("init", NoArg)
  /\ codec = CodecIdle
  /\ serial \in { [stage |-> "input", config |-> c, result |-> NoConfig] : c \in UrlConfigs }
  /\ sdk = SdkIdle
  /\ loop = LoopIdle

\* formatChekinUrl(config), as ChekinInboxSDK.createIframe calls it
FormatUrl ==
  /\ serial.stage = "input"
  /\ serial' = [serial EXCEPT !.stage = "done",
                              !.result = FormatChekinUrl(serial.config)]
  /\ UNCHANGED <<engineVars, codec, sdk, loop>>

NextUrl == FormatUrl

SpecUrl == InitUrl /\ [][NextUrl]_vars

(* Version tags: formatChekinUrl on configurations that differ in the version *)

VersionTags ==
  { Undefined, <<>>, Latest, <<"d", "e", "v", "e", "l", "o", "p", "m", "e", "n", "t">>,
    <<"d", "e", "v">>,
    <<"v", "1", ".", "2", ".", "3">>,
    <<"1", ".", "2", ".", "3">>,
    <<"v">>,
    <<"2">>,
    <<"l", "a", "t", "e", "s", "t", "2">>,
    <<"c", "o", "n", "s", "t", "r", "u", "c", "t", "o", "r">>,
    <<"t", "o", "S", "t", "r", "i", "n", "g">>,
    <<"v", "c", "o", "n", "s", "t", "r", "u", "c", "t", "o", "r">> }

VersionConfigs ==
  [apiKey : {Repeat("k", ShortKeyLen)}, baseUrl : {Undefined, ExplicitBaseUrl},
   version : VersionTags, defaultLanguage : {Undefined, <<"e", "n">>},
   autoHeight : {"unset", "true"}, styles : {Undefined}, stylesLink : {Undefined}]

InitVersion ==
  /\ phase = "created"
  /\ pendingPostMessageConfig = NoConfig
  /\ contentWindow = TRUE
  /\ hasReplaceState = TRUE
  /\ eventListeners = [t \in EventTypes |-> <<>>]
  /\ currentRoute = <<"#", "/">>
  /\ routeSyncEnabled = TRUE
  /\ hashPrefix = DefaultHashPrefix
  /\ msgHandlers = 0
  /\ hashHandlers = 0
  /\ hostHash = <<>>
  /\ pendingHashEvents = 0
  /\ posted = <<>>
  /\ hashWrites = 0
  /\ logged = <<>>
  /\ invoked = <<>>
  /\ listenerErrors = <<>>
  /\ threw = FALSE
  /\ last = Op("init", NoArg)
  /\ codec = CodecIdle
  /\ serial \in { [stage |-> "input", config |-> c, result |-> NoConfig] :
                    c \in VersionConfigs }
  /\ sdk = SdkIdle
  /\ loop = LoopIdle

NextVersion == FormatUrl

SpecVersion == InitVersion /\ [][NextVersion]_vars

-----------------------------------------------------------------------------
(* ChekinInboxSDK: the instance the host page holds. Its configuration is  *)
(* validated by ChekinSDKValidator, its calls are logged by ChekinLogger,  *)
(* and after the iframe's load event it drives a ChekinCommunicator.       *)

\* the fields of ChekinInboxSDKConfig, all absent: a string field holds
\* Undefined, a boolean or callback field "unset"
AbsentConfig ==
  [apiKey |-> Undefined, baseUrl |-> Undefined, version |-> Undefined,
   defaultLanguage |-> Undefined, styles |-> Undefined, stylesLink |-> Undefined,
   autoHeight |-> "unset", enableLogging |-> "unset", routeSync |-> "unset",
   onHeightChanged |-> "unset", onError |-> "unset", onConnectionError |-> "unset"]

\* {...a, ...b}
Spread(a, b) ==
  [f \in DOMAIN a |-> IF b[f] = AbsentConfig[f] THEN a[f] ELSE b[f]]

Digits == {"0", "1", "2", "3", "4", "5", "6", "7", "8", "9"}

Letters ==
  {"a", "b", "c", "d", "e", "f", "g", "h", "i", "j", "k", "l", "m", "n", "o",
   "p", "q", "r", "s", "t", "u", "v", "w", "x", "y", "z",
   "A", "B", "C", "D", "E", "F", "G", "H", "I", "J", "K", "L", "M", "N", "O",
   "P", "Q", "R", "S", "T", "U", "V", "W", "X", "Y", "Z"}

AllIn(s, S) == s # <<>> /\ \A i \in 1..Len(s) : s[i] \in S

\* \d+\.\d+\.\d+(-[a-z0-9]+)? with the flag i
SemVer(s) ==
  \E i, j \in 1..Len(s) :
    /\ i < j
    /\ s[i] = "."
    /\ s[j] = "."
    /\ AllIn(SubSeq(s, 1, i - 1), Digits)
    /\ AllIn(SubSeq(s, i + 1, j - 1), Digits)
    /\ \/ AllIn(SubSeq(s, j + 1, Len(s)), Digits)
       \/ \E k \in (j + 1)..Len(s) :
            /\ s[k] = "-"
            /\ AllIn(SubSeq(s, j + 1, k - 1), Digits)
            /\ AllIn(SubSeq(s, k + 1, Len(s)), Digits \cup Letters)

\* /^(latest|v?\d+\.\d+\.\d+(-[a-z0-9]+)?)$/i
VersionFormat(v) ==
  \/ /\ Len(v) = 6
     /\ \A i \in 1..6 : v[i] \in {Latest[i], <<"L", "A", "T", "E", "S", "T">>[i]}
  \/ SemVer(v)
  \/ Len(v) > 0 /\ v[1] \in {"v", "V"} /\ SemVer(Tail(v))

SUPPORTED_LANGUAGES ==
  { <<"e", "n">>, <<"e", "s">>, <<"i", "t">>, <<"d", "e">>, <<"f", "r">>,
    <<"h", "u">>, <<"r", "u">>, <<"c", "s">>, <<"b", "g">>, <<"p", "t">>,
    <<"r", "o">>, <<"e", "t">>, <<"p", "l">>, <<"c", "a">> }

\* new URL(s) does not throw: s starts with a scheme, letters and a colon
ParsesAsUrl(s) ==
  \E i \in 2..Len(s) : s[i] = ":" /\ AllIn(SubSeq(s, 1, i - 1), Letters)

\* the value an entry of the validation result carries: a string of the
\* configuration, or the length of the key, written here as a marker
LengthValue == <<"l", "e", "n", "g", "t", "h">>

ValidationEntry(field, message, value) ==
  [field |-> field, message |-> message, value |-> value]

\* ChekinSDKValidator.validateConfig(config). The model's configurations are
\* well typed, so the typeof checks never fail.
ValidateConfig(config) ==
  LET apiKeyErrors ==
        IF Falsy(config.apiKey)
          THEN <<ValidationEntry("apiKey", "API key is required", config.apiKey)>>
          ELSE <<>>
      apiKeyWarnings ==
        IF ~Falsy(config.apiKey) /\ Len(config.apiKey) < 10
          THEN <<ValidationEntry("apiKey", "API key seems too short", LengthValue)>>
          ELSE <<>>
      baseUrlErrors ==
        IF ~Falsy(config.baseUrl) /\ ~ParsesAsUrl(config.baseUrl)
          THEN <<ValidationEntry("baseUrl", "Base URL must be a valid URL", config.baseUrl)>>
          ELSE <<>>
      versionWarnings ==
        IF ~Falsy(config.version) /\ ~VersionFormat(config.version)
          THEN <<ValidationEntry("version", "Version format", config.version)>>
          ELSE <<>>
      languageWarnings ==
        IF ~Falsy(config.defaultLanguage)
             /\ config.defaultLanguage \notin SUPPORTED_LANGUAGES
          THEN <<ValidationEntry("defaultLanguage", "Unsupported language",
                                 config.defaultLanguage)>>
          ELSE <<>>
      stylesLinkErrors ==
        IF ~Falsy(config.stylesLink) /\ ~ParsesAsUrl(config.stylesLink)
          THEN <<ValidationEntry("stylesLink", "Styles link must be a valid URL",
                                 config.stylesLink)>>
          ELSE <<>>
      errors == apiKeyErrors \o baseUrlErrors \o stylesLinkErrors
  IN  [isValid |-> errors = <<>>,
       errors |-> errors,
       warnings |-> apiKeyWarnings \o versionWarnings \o languageWarnings]

\* a call of ChekinLogger.log: level, message, and of its data argument the
\* string and the configuration object it carries
SdkLogEntry(level, message, text, config) ==
  [level |-> level, message |-> message, text |-> text, config |-> config]

\* ChekinLogger.log(level, message, data): nothing is made of the call
\* unless the logger is enabled
SdkLog(s, level, message, text, config) ==
  IF s.loggingEnabled
    THEN [s EXCEPT !.logs = Append(@, SdkLogEntry(level, message, text, config))]
    ELSE s

RECURSIVE SdkLogEach(_, _, _, _)
SdkLogEach(s, level, prefix, entries) ==
  IF entries = <<>> THEN s
  ELSE SdkLogEach(SdkLog(s, level, prefix, Head(entries).value, AbsentConfig),
                  level, prefix, Tail(entries))

\* ChekinInboxSDK.validateConfig()
SdkValidateConfig(s) ==
  LET validationResult == ValidateConfig(s.config)
  IN  IF validationResult.errors # <<>>
        THEN [SdkLogEach(s, "error", "Validation error", validationResult.errors)
                EXCEPT !.threw = TRUE]
        ELSE SdkLog(SdkLogEach(s, "warn", "Validation warning", validationResult.warnings),
                    "debug", "SDK configuration validated successfully", Undefined,
                    AbsentConfig)

NoCommunicator == [none |-> TRUE]

\* the window and the fields of a ChekinCommunicator before its constructor
\* has run, in the page the SDK instance lives in
BlankCommunicator ==
  [contentWindow |-> TRUE, hasReplaceState |-> TRUE,
   eventListeners |-> [t \in EventTypes |-> <<>>],
   currentRoute |-> <<"#", "/">>, routeSyncEnabled |-> TRUE,
   hashPrefix |-> DefaultHashPrefix, msgHandlers |-> 0, hashHandlers |-> 0,
   hostHash |-> <<>>, pendingHashEvents |-> 0, posted |-> <<>>, hashWrites |-> 0,
   logged |-> <<>>, invoked |-> <<>>, listenerErrors |-> <<>>, threw |-> FALSE]

\* the fields of new ChekinInboxSDK(config) before the constructor validates
\* them, with the outputs of the call in progress
\* (overflow remembers the postMessageConfig formatChekinUrl returned when
\* the iframe was created)
NewSdk(config) ==
  [config |-> config, loggingEnabled |-> config.enableLogging = "true",
   iframe |-> "null", src |-> Undefined, inDom |-> FALSE, loaded |-> FALSE,
   communicator |-> NoCommunicator, observer |-> FALSE, pending |-> NoConfig,
   overflow |-> NoConfig, promise |-> "none",
   abandoned |-> [loading |-> FALSE, fired |-> FALSE], stale |-> <<>>,
   subscribed |-> {}, invoked |-> <<>>, logs |-> <<>>, posted |-> <<>>, threw |-> FALSE, returned |-> Undefined]

\* the instance at the start of a call: the outputs are those of this call
SdkCall(s) ==
  [s EXCEPT !.logs = <<>>, !.posted = <<>>, !.invoked = <<>>, !.threw = FALSE,
            !.returned = Undefined]

\* what the Communicator reads of the SDK configuration
CommunicatorConfig(config) ==
  [routeSync |-> config.routeSync # "false", onError |-> config.onError,
   onConnectionError |-> config.onConnectionError]

\* the data the SDK hands to the logger with a call the Communicator model
\* records by its message: logIframeLoad(src) and logMount(id, config)
RECURSIVE SdkEntries(_, _)
SdkEntries(s, calls) ==
  IF calls = <<>> THEN <<>>
  ELSE LET l == Head(calls)
       IN  << SdkLogEntry(l.level, l.message,
                          IF l.message = "Iframe loaded successfully" THEN s.src
                          ELSE Undefined,
                          IF l.message = "SDK mounted to container" THEN s.config
                          ELSE AbsentConfig) >>
             \o SdkEntries(s, Tail(calls))

\* the outputs of a run of the Communicator become outputs of the SDK call
Absorb(s, e) ==
  [s EXCEPT !.communicator = e,
            !.posted = @ \o e.posted,
            !.logs = IF s.loggingEnabled THEN @ \o SdkEntries(s, e.logged) ELSE @,
            !.threw = @ \/ e.threw]

\* the communicator as the receiver of one call
Receiver(s) ==
  [s.communicator EXCEPT !.posted = <<>>, !.logged = <<>>, !.hashWrites = 0,
                         !.invoked = <<>>, !.listenerErrors = <<>>, !.threw = FALSE]

\* this.communicator?.method(...): e is the communicator after the call
WithCommunicator(s, e) ==
  IF s.communicator = NoCommunicator THEN s ELSE Absorb(s, e)

Redacted == <<"[", "R", "E", "D", "A", "C", "T", "E", "D", "]">>

\* new ChekinInboxSDK(config): threw stands for the exception that leaves the
\* constructor, in which case no instance is obtained
SdkConstructor(config) ==
  LET s == SdkValidateConfig(NewSdk(config))
  IN  IF s.threw THEN s
      ELSE SdkLog(s, "info", "ChekinSDK instance created",
                  IF Falsy(config.apiKey) THEN <<"m", "i", "s", "s", "i", "n", "g">>
                  ELSE Redacted,
                  AbsentConfig)

\* initialize(config)
SdkInitialize(s, config) ==
  LET s1 == SdkLog(s, "info", "Initializing SDK with new configuration", Undefined,
                   AbsentConfig)
      s2 == SdkValidateConfig([s1 EXCEPT !.config = Spread(@, config)])
  IN  IF s2.threw THEN s2
      ELSE SdkLog(s2, "info", "Configuration updated", Undefined, config)

\* createIframe(container): an iframe that exists is appended again, which
\* makes the browser load it again
SdkCreateIframe(s) ==
  IF s.iframe # "null" THEN [s EXCEPT !.inDom = TRUE, !.loaded = FALSE]
  ELSE LET urlResult == FormatChekinUrl(s.config)
           s1 == [s EXCEPT !.iframe = "element", !.src = Href(urlResult.url),
                           !.loaded = FALSE, !.promise = "pending",
                           !.pending = urlResult.postMessageConfig,
                           !.overflow = urlResult.postMessageConfig]
           s2 == IF urlResult.isLengthLimited
                   THEN SdkLog(s1, "warn", "URL length exceeded safe limits", LengthValue,
                               AbsentConfig)
                   ELSE s1
       IN  [s2 EXCEPT !.inDom = TRUE, !.observer = TRUE]

\* render(container): found tells whether the container element exists
SdkRender(s, found) ==
  LET s1 == SdkLog(s, "info", "Starting render process for container", Undefined,
                   AbsentConfig)
  IN  IF ~found
        THEN [SdkLog(s1, "error", "Container element not found", Undefined, AbsentConfig)
                EXCEPT !.threw = TRUE]
      ELSE IF Falsy(s1.config.apiKey)
        THEN [SdkLog(s1, "error", "Render failed: SDK not initialized with apiKey",
                     Undefined, AbsentConfig)
                EXCEPT !.threw = TRUE]
      ELSE SdkCreateIframe(s1)

\* iframe.onload: resolve(this.iframe) settles the promise of the render call
\* that created the element
SdkOnLoad(s) ==
  IF s.iframe = "null" THEN s
  ELSE LET e == OnLoadSteps(BlankCommunicator, CommunicatorConfig(s.config), s.pending)
           s1 == Absorb([s EXCEPT !.loaded = TRUE], e)
       IN  IF e.threw THEN s1 ELSE [s1 EXCEPT !.pending = NoConfig, !.promise = "resolved"]

\* the promises of render calls whose element destroy() has dropped: one that
\* is pending when the element is dropped stays pending, with the load event
\* of the element still to come or already handled
Abandon(s) ==
  [s EXCEPT !.promise = "none",
            !.abandoned = IF s.promise # "pending" THEN @
                          ELSE IF s.loaded THEN [@ EXCEPT !.fired = TRUE]
                          ELSE [@ EXCEPT !.loading = TRUE]]

\* iframe.onload of an element destroy() has dropped: the handler reads
\* this.iframe, which is null or the element of a later render, and resolves
\* the promise of its own render call only when it runs its steps
SdkOnLoadAbandoned(s) ==
  IF s.iframe = "null"
    THEN [s EXCEPT !.abandoned = [loading |-> FALSE, fired |-> TRUE]]
  ELSE LET s1 == [SdkOnLoad(s) EXCEPT !.loaded = s.loaded, !.promise = s.promise]
       IN  IF s1.threw THEN [s1 EXCEPT !.abandoned = [loading |-> FALSE, fired |-> TRUE]]
           ELSE [s1 EXCEPT !.abandoned.loading = FALSE]

\* destroy() that keeps its references to the communicator and the observer
SdkDestroyKeepCommunicator(s) ==
  LET s1 == SdkLog(s, "info", "Destroying SDK instance", Undefined, AbsentConfig)
      s2 == WithCommunicator([s1 EXCEPT !.inDom = FALSE], Destroy(Receiver(s1)))
      s3 == [Abandon(s2) EXCEPT !.iframe = "null", !.src = Undefined, !.loaded = FALSE]
  IN  SdkLog(s3, "info", "SDK unmounted", Undefined, AbsentConfig)

\* destroy()
SdkDestroy(s) ==
  LET s1 == SdkLog(s, "info", "Destroying SDK instance", Undefined, AbsentConfig)
      s2 == WithCommunicator([s1 EXCEPT !.inDom = FALSE], Destroy(Receiver(s1)))
      s3 == [Abandon(s2) EXCEPT !.observer = FALSE, !.iframe = "null", !.src = Undefined,
                                !.loaded = FALSE, !.communicator = NoCommunicator]
  IN  SdkLog(s3, "info", "SDK unmounted", Undefined, AbsentConfig)

\* on(event, callback)
SdkOn(s, type, callback) == WithCommunicator(s, On(Receiver(s), type, callback))

\* off(event, callback)
SdkOff(s, type, callback) == WithCommunicator(s, Off(Receiver(s), type, callback))

\* the structured clone of a configuration: a function cannot be cloned
Cloneable(config) ==
  /\ config.onHeightChanged = "unset"
  /\ config.onError = "unset"
  /\ config.onConnectionError = "unset"

\* communicator.send({type: CONFIG_UPDATE, payload: config}): posted records
\* the message handed to postMessage, which raises DataCloneError for a
\* payload that cannot be cloned
SendConfig(e, config) ==
  IF e.contentWindow /\ ~Cloneable(config)
    THEN [e EXCEPT !.posted = Append(@, [type |-> CONFIG_UPDATE, payload |-> config]),
                   !.threw = TRUE]
    ELSE Send(e, [type |-> CONFIG_UPDATE, payload |-> config])

\* updateConfig(newConfig)
SdkUpdateConfig(s, newConfig) ==
  LET s1 == SdkLog(s, "info", "Updating SDK configuration", Undefined, newConfig)
      s2 == [s1 EXCEPT !.config = Spread(@, newConfig)]
      s3 == WithCommunicator(s2, SendConfig(Receiver(s2), s2.config))
  IN  IF s3.threw THEN s3
      ELSE SdkLog(s3, "info", "Configuration updated", Undefined, newConfig)

\* navigate(path)
SdkNavigate(s, path) ==
  WithCommunicator(SdkLog(s, "info", "Navigating to path", path, AbsentConfig),
                   NavigateToRoute(Receiver(s), path))

\* getCurrentRoute(): this.communicator?.getCurrentRoute() || '/'
SdkGetCurrentRoute(s) ==
  [s EXCEPT !.returned = IF s.communicator = NoCommunicator THEN <<"/">>
                         ELSE s.communicator.currentRoute]

(* Inputs and calls of the SDK instance *)

KeyA == <<"k", "e", "y", "-", "A", "1", "2", "3", "4", "5">>
KeyB == <<"k", "e", "y", "-", "B", "6", "7", "8", "9", "0">>
ShortKey == <<"a", "b", "c">>

\* new ChekinInboxSDK() without argument, and with a key, logging on or off
ConstructorConfigs ==
  { AbsentConfig,
    [AbsentConfig EXCEPT !.apiKey = KeyA],
    [AbsentConfig EXCEPT !.apiKey = KeyA, !.enableLogging = "true"],
    [AbsentConfig EXCEPT !.apiKey = KeyB, !.enableLogging = "true"],
    [AbsentConfig EXCEPT !.apiKey = ShortKey, !.enableLogging = "true"],
    [AbsentConfig EXCEPT !.apiKey = KeyA, !.styles = PlainValue(InlineLimit)],
    [AbsentConfig EXCEPT !.apiKey = KeyA, !.onHeightChanged = "onHeightA",
                         !.onError = "onErrorA"] }

InitializeConfigs == { [AbsentConfig EXCEPT !.apiKey = KeyB] }

\* updateConfig with new styles, with an empty key, and with new callbacks
UpdateConfigs ==
  { [AbsentConfig EXCEPT !.styles = <<"s">>],
    [AbsentConfig EXCEPT !.apiKey = <<>>],
    [AbsentConfig EXCEPT !.onHeightChanged = "onHeightB", !.onError = "onErrorB"] }

\* navigate(path)
SdkPaths == { <<"/", "a">> }

\* no instance yet; the variables of the Engine model are not used
InitSdk ==
  /\ phase = "created"
  /\ pendingPostMessageConfig = NoConfig
  /\ contentWindow = TRUE
  /\ hasReplaceState = TRUE
  /\ eventListeners = [t \in EventTypes |-> <<>>]
  /\ currentRoute = <<"#", "/">>
  /\ routeSyncEnabled = TRUE
  /\ hashPrefix = DefaultHashPrefix
  /\ msgHandlers = 0
  /\ hashHandlers = 0
  /\ hostHash = <<>>
  /\ pendingHashEvents = 0
  /\ posted = <<>>
  /\ hashWrites = 0
  /\ logged = <<>>
  /\ invoked = <<>>
  /\ listenerErrors = <<>>
  /\ threw = FALSE
  /\ last = Op("init", NoArg)
  /\ codec = CodecIdle
  /\ serial = SerialIdle
  /\ loop = LoopIdle
  /\ sdk = [stage |-> "none", inst |-> NewSdk(AbsentConfig), last |-> Op("init", NoArg)]

SdkStep(stage, inst, name, arg) ==
  /\ sdk' = [stage |-> stage, inst |-> inst, last |-> Op(name, arg)]
  /\ UNCHANGED <<engineVars, codec, serial, loop>>

\* a call of a method on the instance
SdkMethod(name, arg, inst) ==
  /\ sdk.stage = "live"
  /\ SdkStep("live", inst, name, arg)

SdkNew(config) ==
  /\ sdk.stage = "none"
  /\ LET s == SdkConstructor(config)
     IN  SdkStep(IF s.threw THEN "none" ELSE "live", s, "new", config)

\* the history records the configuration stored before the call
SdkCallInitialize(config) ==
  SdkMethod("initialize", [config |-> config, before |-> sdk.inst.config],
            SdkInitialize(SdkCall(sdk.inst), config))

SdkCallRender(found) ==
  SdkMethod("render", found, SdkRender(SdkCall(sdk.inst), found))

\* the load event of the iframe element in the document
SdkLoadEvent ==
  /\ sdk.stage = "live"
  /\ sdk.inst.iframe = "element"
  /\ sdk.inst.inDom
  /\ ~sdk.inst.loaded
  /\ SdkMethod("load", NoArg, SdkOnLoad(SdkCall(sdk.inst)))

SdkCallDestroy ==
  SdkMethod("destroy", [again |-> sdk.last.op = "destroy",
                        loaded |-> sdk.inst.communicator # NoCommunicator],
            SdkDestroy(SdkCall(sdk.inst)))

\* the container leaves the document: the MutationObserver calls destroy()
SdkContainerRemoved ==
  /\ sdk.stage = "live"
  /\ sdk.inst.observer
  /\ SdkMethod("containerRemoved", NoArg, SdkDestroy(SdkCall(sdk.inst)))

SdkCallOn(type, callback) ==
  /\ sdk.stage = "live"
  /\ sdk.inst.communicator # NoCommunicator
       => sdk.inst.communicator.eventListeners[type] = <<>>
  /\ SdkMethod("on", NoArg, SdkOn(SdkCall(sdk.inst), type, callback))

SdkCallOff(type, callback) ==
  SdkMethod("off", NoArg, SdkOff(SdkCall(sdk.inst), type, callback))

\* the history records the configuration stored before the call
SdkCallUpdateConfig(newConfig) ==
  SdkMethod("updateConfig", [newConfig |-> newConfig, before |-> sdk.inst.config],
            SdkUpdateConfig(SdkCall(sdk.inst), newConfig))

SdkCallNavigate(path) ==
  SdkMethod("navigate", path, SdkNavigate(SdkCall(sdk.inst), path))

SdkCallGetCurrentRoute ==
  SdkMethod("getCurrentRoute", NoArg, SdkGetCurrentRoute(SdkCall(sdk.inst)))

NextSdk ==
  \/ \E config \in ConstructorConfigs : SdkNew(config)
  \/ \E config \in InitializeConfigs : SdkCallInitialize(config)
  \/ \E found \in BOOLEAN : SdkCallRender(found)
  \/ SdkLoadEvent
  \/ SdkCallDestroy
  \/ SdkContainerRemoved
  \/ \E t \in UserTypes : SdkCallOn(t, "cbA")
  \/ \E t \in UserTypes : SdkCallOff(t, "cbA")
  \/ \E newConfig \in UpdateConfigs : SdkCallUpdateConfig(newConfig)
  \/ \E path \in SdkPaths : SdkCallNavigate(path)
  \/ SdkCallGetCurrentRoute

SpecSdk == InitSdk /\ [][NextSdk]_vars

(* initialize on its own: an instance is configured again with keys and    *)
(* addresses that pass validation, pass it with warnings, or fail it.      *)

\* initialize with another key, a short key, an empty key, a base address
\* and a style sheet address that are no URLs, and a language not supported
InitializeInputs ==
  { [AbsentConfig EXCEPT !.apiKey = KeyB],
    [AbsentConfig EXCEPT !.apiKey = ShortKey],
    [AbsentConfig EXCEPT !.apiKey = <<>>],
    [AbsentConfig EXCEPT !.baseUrl = <<"x">>],
    [AbsentConfig EXCEPT !.apiKey = KeyB, !.stylesLink = <<"x">>],
    [AbsentConfig EXCEPT !.defaultLanguage = <<"x", "x">>] }

NextInitialize ==
  \/ \E config \in ConstructorConfigs : SdkNew(config)
  \/ \E config \in InitializeInputs : SdkCallInitialize(config)
  \/ SdkCallRender(TRUE)
  \/ SdkCallGetCurrentRoute

SpecInitialize == InitSdk /\ [][NextInitialize]_vars

(* Messages of the iframe and the callbacks of the host page: the window    *)
(* delivers a message event to the handler of every Communicator the       *)
(* instance has created for the element in the document.                   *)

MaxStale == 1

\* what the listeners a Communicator has invoked do in the SDK: the listener
\* setupEventListeners registers for height changes calls updateIframeHeight
\* and then the onHeightChanged of this.config, read when the message arrives;
\* any other listener is a callback of the host page
RECURSIVE SdkListenerEffects(_, _)
SdkListenerEffects(s, called) ==
  IF called = <<>> THEN s
  ELSE LET cb == Head(called)
           s1 == IF s.iframe = "null" THEN s
                 ELSE SdkLog(s, "debug", "Iframe height updated", Undefined, AbsentConfig)
           s2 == IF cb # "sdkHeightChanged" THEN [s EXCEPT !.invoked = Append(@, cb)]
                 ELSE IF s.config.onHeightChanged # "unset"
                   THEN [s1 EXCEPT !.invoked = Append(@, s.config.onHeightChanged)]
                   ELSE s1
       IN  SdkListenerEffects(s2, Tail(called))

\* handleMessage of the Communicators created at earlier load events of the
\* element, which no one has destroyed, in the order of their creation
RECURSIVE SdkDeliverStale(_, _, _)
SdkDeliverStale(s, i, event) ==
  IF i > Len(s.stale) THEN s
  ELSE LET e == HandleMessage(Receiver([s EXCEPT !.communicator = s.stale[i]]), event)
           s1 == [Absorb(s, e) EXCEPT !.communicator = s.communicator,
                                      !.stale[i] = Receiver([s EXCEPT !.communicator = e])]
       IN  SdkDeliverStale(SdkListenerEffects(s1, e.invoked), i + 1, event)

\* a message event of the window: the handlers run in the order in which the
\* constructors registered them
SdkHandleMessage(s, event) ==
  LET s1 == SdkDeliverStale(s, 1, event)
  IN  IF s1.communicator = NoCommunicator THEN s1
      ELSE LET e == HandleMessage(Receiver(s1), event)
           IN  SdkListenerEffects(Absorb(s1, e), e.invoked)

\* new ChekinCommunicator in onload while this.communicator holds the one of
\* an earlier load: the earlier one keeps its window handler and its registry
KeepStale(before, after) ==
  IF before.communicator = NoCommunicator THEN after
  ELSE [after EXCEPT !.stale = Append(@, Receiver(before))]

\* the messages the embedded application posts to the host page
CallbackMessages ==
  { [source |-> "iframeWindow", type |-> t, payload |-> OpaquePayload] :
      t \in {HEIGHT_CHANGED, ERROR} }

\* new ChekinInboxSDK with a key, without and with callbacks
CallbackConfigs ==
  { [AbsentConfig EXCEPT !.apiKey = KeyA],
    [AbsentConfig EXCEPT !.apiKey = KeyA, !.onHeightChanged = "onHeightA",
                         !.onError = "onErrorA"] }

\* updateConfig with new callbacks
CallbackUpdates ==
  { [AbsentConfig EXCEPT !.onHeightChanged = "onHeightB", !.onError = "onErrorB"] }

\* the load event of the iframe element in the document
CallbacksLoadEvent ==
  /\ sdk.stage = "live"
  /\ sdk.inst.iframe = "element"
  /\ sdk.inst.inDom
  /\ ~sdk.inst.loaded
  /\ Len(sdk.inst.stale) < MaxStale
  /\ SdkMethod("load", NoArg, KeepStale(sdk.inst, SdkOnLoad(SdkCall(sdk.inst))))

\* destroy(): the element leaves the document, and the Communicators created
\* for it accept no message any more
CallbacksDestroy ==
  SdkMethod("destroy", NoArg,
            [SdkDestroy(SdkCall(sdk.inst)) EXCEPT !.stale = <<>>, !.subscribed = {}])

\* on(event, callback) of the host page; subscribed remembers the events the
\* host page has asked for
CallbacksOn(type, callback) ==
  /\ sdk.stage = "live"
  /\ type \notin sdk.inst.subscribed
  /\ SdkMethod("on", NoArg,
               [SdkOn(SdkCall(sdk.inst), type, callback)
                  EXCEPT !.subscribed = @ \cup {type}])

\* off(event, callback)
CallbacksOff(type, callback) ==
  /\ sdk.stage = "live"
  /\ SdkMethod("off", NoArg,
               [SdkOff(SdkCall(sdk.inst), type, callback)
                  EXCEPT !.subscribed = @ \ {type}])

\* the iframe in the document posts a message; the history records the
\* instance as it was when the message arrived
SdkMessageEvent(event) ==
  /\ sdk.stage = "live"
  /\ sdk.inst.inDom
  /\ SdkMethod("message", [type |-> event.type, before |-> sdk.inst],
               SdkHandleMessage(SdkCall(sdk.inst), event))

NextCallbacks ==
  \/ \E config \in CallbackConfigs : SdkNew(config)
  \/ SdkCallRender(TRUE)
  \/ CallbacksLoadEvent
  \/ CallbacksDestroy
  \/ CallbacksOn(ERROR, "cbA")
  \/ CallbacksOff(ERROR, "cbA")
  \/ \E newConfig \in CallbackUpdates : SdkCallUpdateConfig(newConfig)
  \/ \E event \in CallbackMessages : SdkMessageEvent(event)

SpecCallbacks == InitSdk /\ [][NextCallbacks]_vars

(* The promises of render: every iframe element the instance has created   *)
(* fires its load event, also after destroy() has dropped the element.     *)

\* the calls and events of the instance that bear on the promises; the
\* history records the name of the step
RenderStep(name, inst) ==
  /\ sdk.stage = "live"
  /\ SdkStep("live", inst, name, NoArg)

RenderNew(config) ==
  /\ sdk.stage = "none"
  /\ LET s == SdkConstructor(config)
     IN  SdkStep(IF s.threw THEN "none" ELSE "live", s, "new", NoArg)

RenderCallRender(found) == RenderStep("render", SdkRender(SdkCall(sdk.inst), found))

\* the load event of the iframe element in the document
RenderLoadEvent ==
  /\ sdk.stage = "live"
  /\ sdk.inst.iframe = "element"
  /\ sdk.inst.inDom
  /\ ~sdk.inst.loaded
  /\ RenderStep("load", SdkOnLoad(SdkCall(sdk.inst)))

\* the load event of an element destroy() has dropped
RenderAbandonedLoadEvent ==
  /\ sdk.stage = "live"
  /\ sdk.inst.abandoned.loading
  /\ RenderStep("abandonedLoad", SdkOnLoadAbandoned(SdkCall(sdk.inst)))

RenderCallDestroy == RenderStep("destroy", SdkDestroy(SdkCall(sdk.inst)))

\* getCurrentRoute()
RenderCallGetCurrentRoute ==
  RenderStep("getCurrentRoute", SdkGetCurrentRoute(SdkCall(sdk.inst)))

\* new ChekinInboxSDK with a key, logging off or on
RenderConfigs ==
  { [AbsentConfig EXCEPT !.apiKey = KeyA],
    [AbsentConfig EXCEPT !.apiKey = KeyA, !.enableLogging = "true"] }

NextRender ==
  \/ \E config \in RenderConfigs : RenderNew(config)
  \/ \E found \in BOOLEAN : RenderCallRender(found)
  \/ RenderLoadEvent
  \/ RenderAbandonedLoadEvent
  \/ RenderCallDestroy
  \/ RenderCallGetCurrentRoute

\* the element of the instance has loaded
ElementLoaded == sdk.stage = "live" /\ sdk.inst.loaded

\* the load event of a dropped element is still to come
AbandonedLoading == sdk.stage = "live" /\ sdk.inst.abandoned.loading

\* a load event that is due is delivered
SpecRender ==
  /\ InitSdk
  /\ [][NextRender]_vars
  /\ WF_ElementLoaded(RenderLoadEvent)
  /\ WF_AbandonedLoading(RenderAbandonedLoadEvent)

-----------------------------------------------------------------------------
(* Cross-notification: the Communicator, a host without history.replaceState,
   whose every hash write fires a hashchange event, and an embedded
   application that answers every route-sync message with a route-changed
   message for the same route *)

\* the number of route changes the user makes, on either side
MaxExternal == 2

LoopRoutes == { <<"#", "/", "a">>, <<"#", "/", "b">> }

\* the hashes the user of the host page types: the encoded routes
LoopHashes == { EncodeHash(DefaultHashPrefix, r) : r \in LoopRoutes }

\* the route-changed message of the embedded application for a route
RouteChangedEvent(route) ==
  [source |-> "iframeWindow", type |-> ROUTE_CHANGED,
   payload |-> [kind |-> "object", hash |-> route, fullUrl |-> Undefined]]

\* the routes of the route-sync messages among the posted messages
SyncedRoutes(msgs) ==
  LET syncs == SelectSeq(msgs, LAMBDA m : m.type = "route-sync")
  IN  [i \in 1..Len(syncs) |-> syncs[i].payload.route]

\* what the history records of a step: the route it carries, if any
LoopArg(route) == [route |-> route]

InitLoop ==
  /\ phase = "created"
  /\ pendingPostMessageConfig = NoConfig
  /\ contentWindow = TRUE
  /\ hasReplaceState = FALSE
  /\ eventListeners = [t \in EventTypes |-> <<>>]
  /\ currentRoute = <<"#", "/">>
  /\ routeSyncEnabled = TRUE
  /\ hashPrefix = DefaultHashPrefix
  /\ msgHandlers = 0
  /\ hashHandlers = 0
  /\ hostHash = <<>>
  /\ pendingHashEvents = 0
  /\ posted = <<>>
  /\ hashWrites = 0
  /\ logged = <<>>
  /\ invoked = <<>>
  /\ listenerErrors = <<>>
  /\ threw = FALSE
  /\ last = Op("init", LoopArg(Undefined))
  /\ codec = CodecIdle
  /\ serial = SerialIdle
  /\ sdk = SdkIdle
  /\ loop = [stage |-> "run", inbox |-> <<>>, budget |-> MaxExternal]

\* iframe.onload: the Communicator is constructed and the handshake sent
LoopOnLoad ==
  /\ phase = "created"
  /\ \E after \in {OnLoadSteps(Cur, RegistryConfig, pendingPostMessageConfig)} :
       Commit(after)
  /\ phase' = "active"
  /\ last' = Op("onload", LoopArg(Undefined))
  /\ UNCHANGED <<pendingPostMessageConfig, codec, serial, sdk, loop>>

\* an operation of the Communicator; the embedded application answers the
\* route-sync messages it posts, and the answers are in flight
LoopStep(name, route, e, inbox, budget) ==
  /\ phase = "active"
  /\ \E after \in {e} :
       /\ Commit(after)
       /\ \E answers \in {SyncedRoutes(after.posted)} :
            loop' = [loop EXCEPT !.inbox = inbox \o [i \in 1..Len(answers) |->
                                                      RouteChangedEvent(answers[i])],
                                !.budget = budget]
  /\ last' = Op(name, LoopArg(route))
  /\ UNCHANGED <<phase, pendingPostMessageConfig, codec, serial, sdk>>

\* the user navigates inside the embedded application: a route-changed
\* message is posted to the host window
LoopIframeRouteChange(route) ==
  /\ loop.budget > 0
  /\ LoopStep("iframeRouteChange", route, Cur,
              Append(loop.inbox, RouteChangedEvent(route)), loop.budget - 1)

\* the user changes the fragment of the host page: a hashchange event is fired
LoopHostHashChange(hash) ==
  /\ loop.budget > 0
  /\ hash # hostHash
  /\ LoopStep("hostHashChange", Undefined,
              [Cur EXCEPT !.hostHash = hash, !.pendingHashEvents = @ + 1],
              loop.inbox, loop.budget - 1)

\* the application calls navigateToRoute
LoopNavigateToRoute(route) ==
  /\ loop.budget > 0
  /\ LoopStep("navigateToRoute", route, NavigateToRoute(Cur, route),
              loop.inbox, loop.budget - 1)

\* the oldest message in flight is delivered to the window
LoopMessageEvent ==
  /\ loop.inbox # <<>>
  /\ LoopStep("message", PayloadRoute(Head(loop.inbox).payload),
              RunMessageHandlers(Cur, msgHandlers, Head(loop.inbox)),
              Tail(loop.inbox), loop.budget)

\* a pending hashchange event is delivered to the window
LoopHashChangeEvent ==
  /\ pendingHashEvents > 0
  /\ LoopStep("hashchange", Undefined,
              RunHashHandlers([Cur EXCEPT !.pendingHashEvents = @ - 1], hashHandlers),
              loop.inbox, loop.budget)

NextLoop ==
  \/ LoopOnLoad
  \/ \E route \in LoopRoutes : LoopIframeRouteChange(route)
  \/ \E hash \in LoopHashes : LoopHostHashChange(hash)
  \/ \E route \in LoopRoutes : LoopNavigateToRoute(route)
  \/ LoopMessageEvent
  \/ LoopHashChangeEvent

\* a message in flight leaves the queue: the step of LoopMessageEvent, which
\* alone removes the head of the inbox
MessageDelivered ==
  /\ loop.inbox # <<>>
  /\ loop' = [loop EXCEPT !.inbox = Tail(@)]

\* a pending hashchange event is consumed: the step of LoopHashChangeEvent,
\* which alone lowers the number of pending events
HashChangeDelivered ==
  /\ pendingHashEvents > 0
  /\ pendingHashEvents' = pendingHashEvents - 1

\* the event loop of the host window delivers every message in flight and
\* every pending hashchange event
SpecLoop ==
  /\ InitLoop
  /\ [][NextLoop]_vars
  /\ WF_loop(MessageDelivered)
  /\ WF_pendingHashEvents(HashChangeDelivered)

-----------------------------------------------------------------------------
(* Properties *)

\* C1: a message event whose source is not the iframe's contentWindow has no
\* effect: no log entry, no change of the current route, no write of the host
\* hash, no outbound send, no listener invoked.
C1_ForeignSourceNoEffect ==
  [][ (last'.op = "message" /\ last'.arg.source = "rejected") =>
          /\ logged' = <<>>
          /\ currentRoute' = currentRoute
          /\ hostHash' = hostHash
          /\ hashWrites' = 0
          /\ posted' = <<>>
          /\ invoked' = <<>>
          /\ ~threw'
          /\ eventListeners' = eventListeners ]_vars

C1_Witness ==
  /\ last.op = "message"
  /\ last.arg.source = "rejected"
  /\ routeSyncEnabled
  /\ eventListeners[ROUTE_CHANGED] # <<>>
  /\ logged = <<>>

\* the message of digest ev is accepted
Accepted(ev) == ev.source # "rejected"

\* the listeners of an accepted message's type are reached and one of them throws
ThrowingListenerReached(ev) ==
  /\ Accepted(ev)
  /\ \E i \in 1..Len(eventListeners[ev.type]) : Throws(eventListeners[ev.type][i])
  /\ ~(ev.type = ROUTE_CHANGED /\ routeSyncEnabled /\ ev.route = Undefined)

ListenerErrorLogs(log, type) ==
  SelectSeq(log, LAMBDA x : x.level = "error" /\ x.eventType = type)

\* C2: when a listener of an accepted message throws, all listeners of the
\* type are still invoked (so every one registered after it), each exception
\* is logged with the event type, none leaves handleMessage, and the registry
\* is the same after the dispatch as before.
C2_ListenerIsolation ==
  [][ (last'.op = "message" /\ ThrowingListenerReached(last'.arg)) =>
          /\ invoked' = eventListeners[last'.arg.type]
          /\ ~threw'
          /\ Len(ListenerErrorLogs(logged', last'.arg.type))
               = Len(SelectSeq(eventListeners[last'.arg.type], Throws))
          /\ eventListeners' = eventListeners ]_vars

C2_Witness ==
  /\ last.op = "message"
  /\ invoked = <<"cbThrow", "cbA">>
  /\ listenerErrors = <<"cbThrow">>
  /\ eventListeners[ROUTE_CHANGED] = invoked
  /\ ~threw

\* C3: every accepted message has all listeners of its type invoked and
\* handleMessage does not throw, whatever its type and payload.
C3_EveryAcceptedDispatched ==
  [][ (last'.op = "message" /\ Accepted(last'.arg)) =>
          /\ invoked' = eventListeners[last'.arg.type]
          /\ ~threw' ]_vars

\* C4: after a route-changed message made the Engine write the host hash, the
\* hashchange event fired by that write sends nothing to the iframe and
\* leaves the current route unchanged.
C4_EchoIsSilent ==
  [][ ( /\ last.op = "message"
        /\ hashWrites = 1
        /\ ~hasReplaceState
        /\ pendingHashEvents = 1
        /\ last'.op = "hashchange" ) =>
          /\ posted' = <<>>
          /\ currentRoute' = currentRoute ]_vars

\* an accepted route-changed message whose normalized path is the current route
UnchangedRouteMessage(ev) ==
  /\ Accepted(ev)
  /\ ev.type = ROUTE_CHANGED
  /\ ev.route # Undefined
  /\ NormalizeRoute(ev.route) = currentRoute

\* C5: an accepted route-changed message whose normalized path equals the
\* current route writes no host hash, sends nothing and leaves the current
\* route unchanged; its listeners are dispatched.
C5_UnchangedRouteNoOp ==
  [][ (last'.op = "message" /\ UnchangedRouteMessage(last'.arg)) =>
          /\ hashWrites' = 0
          /\ hostHash' = hostHash
          /\ posted' = <<>>
          /\ currentRoute' = currentRoute
          /\ invoked' = eventListeners[ROUTE_CHANGED] ]_vars

C5_Witness ==
  /\ last.op = "message"
  /\ last.arg.type = ROUTE_CHANGED
  /\ last.arg.route # Undefined
  /\ NormalizeRoute(last.arg.route) = currentRoute
  /\ routeSyncEnabled
  /\ hashWrites = 0
  /\ invoked # <<>>

\* C6: with route sync enabled (in a Communicator whose iframe window is
\* reachable), a hashchange event whose host hash matches
\* <prefix>=<encoded path> and decodes to a route other than the current one
\* sets the current route to the normalized route and sends exactly one
\* route-sync message carrying it, without writing the host hash.
C6_HostToIframeSync ==
  [][ ( /\ phase = "active"
        /\ routeSyncEnabled
        /\ contentWindow
        /\ DecodeHash(hashPrefix, hostHash).kind = "route"
        /\ DecodeHash(hashPrefix, hostHash).route # currentRoute
        /\ last'.op = "hashchange" ) =>
          /\ currentRoute' = DecodeHash(hashPrefix, hostHash).route
          /\ posted' = << [type |-> "route-sync",
                           payload |-> [route |-> DecodeHash(hashPrefix, hostHash).route]] >>
          /\ hashWrites' = 0
          /\ hostHash' = hostHash ]_vars

\* C7: for every path p and hash prefix, reading back the host hash written
\* for p yields normalize(p).
C7_RoundTrip ==
  codec.stage = "decoded" =>
    codec.decoded = [kind |-> "route", route |-> NormalizeRoute(codec.path)]

\* C8: after destroy() the message handler and, if route sync was enabled,
\* the hashchange handler are no longer registered on the window, and the
\* listener registry is empty.
C8_TeardownReleases ==
  last.op = "destroy" =>
    /\ msgHandlers = 0
    /\ routeSyncEnabled => hashHandlers = 0
    /\ \A t \in EventTypes : eventListeners[t] = <<>>

\* C9: send with contentWindow null posts nothing, logs a warning, throws
\* nothing and leaves the current route, the route-sync flag and the registry
\* unchanged; with a contentWindow it posts the message exactly once.
C9_BestEffortSend ==
  [][ last'.op = "send" =>
        /\ ~threw'
        /\ currentRoute' = currentRoute
        /\ routeSyncEnabled' = routeSyncEnabled
        /\ eventListeners' = eventListeners
        /\ IF contentWindow
             THEN posted' = <<UpdateMessage>>
             ELSE /\ posted' = <<>>
                  /\ \E i \in 1..Len(logged') : logged'[i].level = "warn" ]_vars

C9_Witness ==
  /\ last.op = "send"
  /\ ~contentWindow
  /\ posted = <<>>
  /\ Len(logged) = 1
  /\ logged[1].level = "warn"

\* C10: nothing is posted before the load; on load the first message posted is
\* the handshake; if route sync is enabled and the host hash matches the
\* prefix pattern the next one is an init-route carrying the normalized
\* decoded route, which is the current route; a config-update comes after
\* these.
C10_HandshakeOrdering ==
  /\ phase = "created" => posted = <<>>
  /\ last.op = "onload" =>
       /\ Len(posted) >= 1
       /\ posted[1].type = HANDSHAKE
       /\ \A i \in 2..Len(posted) : posted[i].type # HANDSHAKE
       /\ (routeSyncEnabled /\ RouteMatch(hashPrefix, Slice1(hostHash)).matched) =>
            /\ Len(posted) >= 2
            /\ posted[2].type = INIT_ROUTE
            /\ posted[2].payload.route = currentRoute
            /\ currentRoute =
                 NormalizeRoute(DecodeURIComponent(
                                  RouteMatch(hashPrefix, Slice1(hostHash)).group).val)
       /\ \A i \in 1..Len(posted) :
            posted[i].type = CONFIG_UPDATE => i = Len(posted) /\ i >= 2

\* a run of the serializer has returned
SerialDone == serial.stage = "done"

\* C11: the url formatChekinUrl returns is never longer than the safe
\* ceiling of 2000 characters, for every configuration.
C11_SafeCeiling ==
  SerialDone => Len(Href(serial.result.url)) <= SAFE_LIMIT

\* the URL is longer than the safe ceiling after oversized styles were deferred
OverCeiling(config) == Len(Href(InlineOrDefer(config).url)) > SAFE_LIMIT

\* C12: a configuration whose URL is over the safe ceiling even after the
\* oversized styles were deferred yields a url with the apiKey parameter
\* only, isLengthLimited = true and an overflow payload in which
\* defaultLanguage is present.
C12_FinalGuard ==
  (SerialDone /\ OverCeiling(serial.config)) =>
    /\ serial.result.url.params
         = << [key |-> ParamApiKey, value |-> serial.config.apiKey] >>
    /\ serial.result.isLengthLimited
    /\ serial.result.postMessageConfig # NoConfig
    /\ "defaultLanguage" \in serial.result.postMessageConfig.keys
    /\ serial.result.postMessageConfig.defaultLanguage = serial.config.defaultLanguage

C12_Witness ==
  /\ SerialDone
  /\ OverCeiling(serial.config)
  /\ Len(serial.config.apiKey) = LongKeyLen
  /\ serial.config.defaultLanguage = <<"e", "n">>
  /\ serial.result.isLengthLimited
  /\ Len(serial.result.url.params) = 1

InOverflow(r, field) ==
  r.postMessageConfig # NoConfig /\ field \in r.postMessageConfig.keys

\* the threshold rule for one of styles and stylesLink
ThresholdRule(r, value, param, field) ==
  value # Undefined =>
    IF Len(EncodeURIComponent(value)) <= InlineLimit - 1
      THEN HasParam(r.url, param) /\ ~InOverflow(r, field)
      ELSE /\ ~HasParam(r.url, param)
           /\ InOverflow(r, field)
           /\ r.postMessageConfig[field] = value
           /\ r.isLengthLimited

\* C13: a styles / stylesLink value of encoded length at most 499 is set as a
\* query parameter and not deferred; one of encoded length 500 or more is
\* absent from the URL, raw in the overflow payload, and the result is
\* length-limited.
C13_Threshold ==
  SerialDone =>
    /\ ThresholdRule(serial.result, serial.config.stylesLink, ParamStylesLink, "stylesLink")
    /\ ThresholdRule(serial.result, serial.config.styles, ParamStyles, "styles")

Carried(r, param, field) == HasParam(r.url, param) \/ InOverflow(r, field)

\* C14: each of defaultLanguage, autoHeight, styles and stylesLink set in the
\* configuration is a query parameter of the url or in the overflow payload.
C14_NoValueLost ==
  SerialDone =>
    /\ serial.config.defaultLanguage # Undefined
         => Carried(serial.result, ParamLang, "defaultLanguage")
    /\ serial.config.autoHeight # "unset"
         => Carried(serial.result, ParamAutoHeight, "autoHeight")
    /\ serial.config.styles # Undefined
         => Carried(serial.result, ParamStyles, "styles")
    /\ serial.config.stylesLink # Undefined
         => Carried(serial.result, ParamStylesLink, "stylesLink")

\* a field of the configuration is deferred to the overflow payload
Deferring(config) ==
  \/ ~Falsy(config.stylesLink)
       /\ Len(EncodeURIComponent(config.stylesLink)) >= InlineLimit
  \/ ~Falsy(config.styles) /\ Len(EncodeURIComponent(config.styles)) >= InlineLimit
  \/ OverCeiling(config)

C16_DispatchOrder ==
  [][ (last'.op = "message" /\ Accepted(last'.arg)) =>
        LET registered == eventListeners[last'.arg.type]
        IN  /\ Len(invoked') = Len(registered)
            /\ \A i \in 1..Len(registered) : invoked'[i] = registered[i] ]_vars

\* the list without its element at position k
Without(list, k) ==
  [i \in 1..(Len(list) - 1) |-> IF i < k THEN list[i] ELSE list[i + 1]]

\* C17: off(type, callback) removes the earliest registration of that
\* callback for that type and nothing else, keeping the order of the
\* remaining registrations; off with a callback that is not registered for
\* the type, or with a type that has no registrations, changes nothing.
C17_OffRemovesEarliest ==
  last.op = "off" =>
    LET before == last.arg.before
        old == before[last.arg.type]
        hits == { i \in 1..Len(old) : old[i] = last.arg.callback }
    IN  /\ \A t \in EventTypes \ {last.arg.type} : eventListeners[t] = before[t]
        /\ IF hits = {}
             THEN eventListeners[last.arg.type] = old
             ELSE eventListeners[last.arg.type] =
                    Without(old, CHOOSE k \in hits : \A j \in hits : k <= j)
        /\ ~threw

\* a callback registered twice with another one in between loses its first
\* registration
C17_Witness ==
  /\ last.op = "off"
  /\ last.arg.type = ROUTE_CHANGED
  /\ last.arg.callback = "cbA"
  /\ last.arg.before[ROUTE_CHANGED] = <<"cbA", "cbThrow", "cbA">>
  /\ eventListeners[ROUTE_CHANGED] = <<"cbThrow", "cbA">>

\* the hash is '#', the prefix, '=' and a non-empty value
HasRouteValue(prefix, hash) ==
  LET lead == <<"#">> \o prefix \o <<"=">>
  IN  Len(hash) > Len(lead) /\ SubSeq(hash, 1, Len(lead)) = lead

InitRouteMessages(msgs) == { i \in 1..Len(msgs) : msgs[i].type = INIT_ROUTE }

\* C18: a hashchange event, or the initial-route step of the handshake, that
\* finds a host hash which is not <prefix>=<non-empty value> leaves the
\* current route unchanged, sends no message (no init-route in the
\* handshake) and raises no error.
C18_MalformedHashIgnored ==
  [][ /\ (last'.op = "hashchange" /\ ~HasRouteValue(hashPrefix, hostHash)) =>
           /\ currentRoute' = currentRoute
           /\ posted' = <<>>
           /\ ~threw'
      /\ (last'.op = "onload" /\ ~HasRouteValue(DefaultHashPrefix, hostHash)) =>
           /\ currentRoute' = currentRoute
           /\ InitRouteMessages(posted') = {}
           /\ ~threw' ]_vars

\* what handing a message to send() posts: the message when the iframe's
\* window is reachable, nothing when it is not
Sent(message) == IF contentWindow THEN <<message>> ELSE <<>>

\* C19: navigateToRoute(path) with route sync disabled sends one navigate
\* message {path} and changes neither the current route nor the host hash;
\* with route sync enabled it sends one route-sync message with the
\* normalized route, sets the current route to it, rewrites the host hash
\* and sends no navigate message.
C19_NavigateToRoute ==
  [][ last'.op = "navigateToRoute" =>
        LET path == last'.arg
            normalized == IF path[1] = "#" THEN path ELSE <<"#">> \o path
        IN  IF routeSyncEnabled
              THEN /\ posted' = Sent([type |-> "route-sync",
                                      payload |-> [route |-> normalized]])
                   /\ currentRoute' = normalized
                   /\ hashWrites' = 1
                   /\ hostHash' = EncodeHash(hashPrefix, path)
              ELSE /\ posted' = Sent([type |-> "navigate", payload |-> [path |-> path]])
                   /\ currentRoute' = currentRoute
                   /\ hashWrites' = 0
                   /\ hostHash' = hostHash ]_vars

\* a navigate message has been sent for a route other than the current one
C19_Witness ==
  /\ last.op = "navigateToRoute"
  /\ ~routeSyncEnabled
  /\ posted = << [type |-> "navigate", payload |-> [path |-> last.arg]] >>
  /\ currentRoute # NormalizeRoute(last.arg)
  /\ hashWrites = 0

\* the fields of the Communicator and its handlers on the window
EngineState ==
  <<eventListeners, currentRoute, routeSyncEnabled, hashPrefix, msgHandlers,
    hashHandlers>>

\* C20: destroy() never throws and leaves the listener registry empty, and a
\* destroy() that follows a destroy() leaves the Engine state as the first
\* one left it.
C20_TeardownIdempotent ==
  [][ last'.op = "destroy" =>
        /\ ~threw'
        /\ \A t \in EventTypes : eventListeners'[t] = <<>>
        /\ last.op = "destroy" => EngineState' = EngineState ]_vars

\* destroy() has been called twice in a row
C20_Witness ==
  /\ last.op = "destroy"
  /\ last.arg.again
  /\ \A t \in EventTypes : eventListeners[t] = <<>>
  /\ ~threw

\* the string k occurs in the string s
Contains(s, k) ==
  \E i \in 1..(Len(s) - Len(k) + 1) : SubSeq(s, i, i + Len(k) - 1) = k

\* a log entry whose data holds the key: in a string, or as the apiKey of a
\* configuration object
Mentions(entry, key) == Contains(entry.text, key) \/ entry.config.apiKey = key

\* C21: no entry the SDK hands to the logger holds the API key in plain text,
\* whatever the sequence of calls.
C21_ApiKeyNeverLogged ==
  \A i \in 1..Len(sdk.inst.logs) :
    \A key \in {KeyA, KeyB, ShortKey} : ~Mentions(sdk.inst.logs[i], key)

ConfigUpdates(msgs) == { i \in 1..Len(msgs) : msgs[i].type = CONFIG_UPDATE }

\* C22: an updateConfig whose resulting configuration fails validation leaves
\* the stored configuration as it was and sends no config-update message.
C22_UpdateValidated ==
  ( /\ sdk.last.op = "updateConfig"
    /\ ~ValidateConfig(Spread(sdk.last.arg.before, sdk.last.arg.newConfig)).isValid ) =>
      /\ sdk.inst.config = sdk.last.arg.before
      /\ ConfigUpdates(sdk.inst.posted) = {}

\* C23: an instance can be constructed with no configuration and configured
\* afterwards: new SDK() does not throw, and the instance is there for
\* initialize({apiKey}) and render(container).
C23_ConstructThenInitialize ==
  (sdk.last.op = "new" /\ sdk.last.arg = AbsentConfig) =>
    /\ ~sdk.inst.threw
    /\ sdk.stage = "live"

\* the instance holds no iframe, no communicator and no observer
Destroyed ==
  /\ sdk.inst.iframe = "null"
  /\ ~sdk.inst.inDom
  /\ sdk.inst.communicator = NoCommunicator
  /\ ~sdk.inst.observer

\* C24: destroy(), called by the application or by the container-removal
\* observer, in any state (before render, before load, after load, repeatedly)
\* does not throw and leaves iframe, communicator and observer null with the
\* iframe out of the document; from then on on, off, navigate, updateConfig
\* and a further destroy post nothing, keep the instance destroyed, and
\* getCurrentRoute returns '/'.
C24_DestroyTearsDown ==
  /\ [](sdk.last.op \in {"destroy", "containerRemoved"} =>
          Destroyed /\ ~sdk.inst.threw /\ sdk.inst.posted = <<>>)
  /\ [][ ( /\ Destroyed
           /\ sdk'.last.op \in {"on", "off", "navigate", "updateConfig",
                                "getCurrentRoute", "destroy"} ) =>
             /\ Destroyed'
             /\ ~sdk'.inst.threw
             /\ sdk'.inst.posted = <<>>
             /\ sdk'.last.op = "getCurrentRoute" => sdk'.inst.returned = <<"/">> ]_vars

\* destroy() was called on an instance with a loaded iframe and a communicator
C24_Witness ==
  /\ sdk.last.op = "destroy"
  /\ sdk.last.arg.loaded
  /\ Destroyed

\* the path segment the base address resolution is to give for a tag
ExpectedSegment(tag) ==
  IF tag \in VersionMapper \/ (Len(tag) > 0 /\ tag[1] = "v") THEN tag
  ELSE <<"v">> \o tag

\* C25: the address formatChekinUrl builds starts from the explicit baseUrl
\* when there is one; otherwise its CDN path segment is the tag itself for
\* 'latest', 'development', 'dev' and tags that start with 'v', 'v' followed
\* by the tag for any other tag, and 'latest' when no version is given;
\* normalizing the segment again leaves it unchanged.
C25_BaseAddress ==
  serial.stage = "done" =>
    LET config == serial.config
        tag == IF Falsy(config.version) THEN Latest ELSE config.version
    IN  /\ serial.result.url.base =
             IF Falsy(config.baseUrl)
               THEN CdnPrefix \o ExpectedSegment(tag) \o CdnSuffix
               ELSE config.baseUrl
        /\ NormalizedVersion(NormalizedVersion(tag)) = NormalizedVersion(tag)

\* C26: in every state the current route starts with '#'; it is '#/' until the
\* first operation on the Communicator.
C26_RouteNormalized ==
  /\ StartsWithHash(currentRoute)
  /\ last.op = "init" => currentRoute = <<"#", "/">>

\* a hash-change event has stored the route of a host hash whose decoded
\* route has no '#': the stored route has one
C26_Witness ==
  /\ last.op = "hashchange"
  /\ RouteMatch(hashPrefix, Slice1(hostHash)).matched
  /\ DecodeURIComponent(RouteMatch(hashPrefix, Slice1(hostHash)).group).ok
  /\ ~StartsWithHash(DecodeURIComponent(RouteMatch(hashPrefix, Slice1(hostHash)).group).val)
  /\ currentRoute =
       <<"#">> \o DecodeURIComponent(RouteMatch(hashPrefix, Slice1(hostHash)).group).val
  /\ posted # <<>>

\* C27: the current route changes only inside the two directional sync
\* functions, which run for an inbound message (iframe-to-host), a hash-change
\* event and navigateToRoute (host-to-iframe); the handshake with its initial
\* route, enableRouteSync, disableRouteSync, on, off, send and destroy leave
\* it unchanged.
C27_RouteChangesOnlyInSync ==
  [][ currentRoute' # currentRoute =>
        last'.op \in {"message", "hashchange", "navigateToRoute"} ]_vars

\* C30: the Communicator has at most one message handler and at most one
\* hash-change handler registered on the window, and none of the latter
\* right after disableRouteSync.
C30_SingleHandlers ==
  /\ msgHandlers <= 1
  /\ hashHandlers <= 1
  /\ last.op = "disableRouteSync" => hashHandlers = 0

\* the route the host hash carries: matched by the prefix pattern and decoded
HashRoute ==
  LET routeMatch == RouteMatch(hashPrefix, Slice1(hostHash))
  IN  IF routeMatch.matched THEN DecodeURIComponent(routeMatch.group)
      ELSE [ok |-> FALSE, val |-> <<>>]

\* C29: with route sync enabled, no hash-change event pending (inbound
\* messages are handled as they arrive) and a host hash that matches the
\* prefix pattern, the current route is the normalized decoding of the hash.
C29_Convergence ==
  ( /\ phase = "active"
    /\ routeSyncEnabled
    /\ pendingHashEvents = 0
    /\ HashRoute.ok ) =>
      currentRoute = NormalizeRoute(HashRoute.val)

\* no message of the embedded application is in flight and no hashchange
\* event is pending
Quiescent == loop.inbox = <<>> /\ pendingHashEvents = 0

\* C28: after the finitely many route changes the user makes on either side,
\* in any interleaving, the system eventually reaches a state with no pending
\* event and stays there: no further message is sent and no hash is written.
C28_NoInfiniteCrossNotification == <>[]Quiescent

\* C31: while route sync is disabled a message or a hashchange event leaves
\* the current route and the host hash unchanged and sends nothing, the
\* listeners of an accepted message are still invoked, and a handshake sends
\* no init-route; disableRouteSync() disables, enableRouteSync() enables with
\* the prefix 'chekin' when none is given, and while route sync is enabled an
\* accepted route change and a hashchange with a route in the hash set the
\* current route.
C31_RouteSyncToggle ==
  [][ /\ ( /\ last'.op \in {"message", "hashchange"}
           /\ ~routeSyncEnabled ) =>
             /\ currentRoute' = currentRoute
             /\ hostHash' = hostHash
             /\ hashWrites' = 0
             /\ posted' = <<>>
             /\ ~threw'
      /\ ( /\ last'.op = "message"
           /\ ~routeSyncEnabled
           /\ last'.arg.source = "iframeWindow" ) =>
             invoked' = eventListeners[last'.arg.type]
      /\ (last'.op = "onload" /\ ~routeSyncEnabled') =>
             InitRouteMessages(posted') = {}
      /\ last'.op = "disableRouteSync" => ~routeSyncEnabled'
      /\ last'.op = "enableRouteSync" =>
             /\ routeSyncEnabled'
             /\ hashPrefix' = DefaultHashPrefix
             /\ hashHandlers' >= 1
      /\ ( /\ last'.op = "message"
           /\ routeSyncEnabled
           /\ last'.arg.source = "iframeWindow"
           /\ last'.arg.type = ROUTE_CHANGED
           /\ last'.arg.route # Undefined
           /\ msgHandlers >= 1 ) =>
             currentRoute' = NormalizeRoute(last'.arg.route)
      /\ ( /\ last'.op = "hashchange"
           /\ routeSyncEnabled
           /\ hashHandlers >= 1
           /\ HashRoute.ok ) =>
             currentRoute' = NormalizeRoute(HashRoute.val) ]_vars

\* a route change of the iframe for a route other than the current one was
\* accepted while route sync was disabled: a listener was invoked and the
\* route is the one before
C31_Witness ==
  /\ last.op = "message"
  /\ ~routeSyncEnabled
  /\ last.arg.source = "iframeWindow"
  /\ last.arg.type = ROUTE_CHANGED
  /\ last.arg.route # Undefined
  /\ NormalizeRoute(last.arg.route) # currentRoute
  /\ invoked # <<>>
  /\ posted = <<>>

\* the positions of the messages of a type among the posted messages
Positions(msgs, type) == { i \in 1..Len(msgs) : msgs[i].type = type }

\* C32: each time the load event fires on an instance whose iframe was
\* created with an overflow payload, a config-update message with that
\* payload is sent after the handshake.
C32_OverflowSentOnEveryLoad ==
  ( /\ sdk.stage = "live"
    /\ sdk.last.op = "load"
    /\ sdk.inst.overflow # NoConfig ) =>
      \E i \in Positions(sdk.inst.posted, HANDSHAKE) :
        \E j \in Positions(sdk.inst.posted, CONFIG_UPDATE) :
          /\ i < j
          /\ sdk.inst.posted[j].payload = sdk.inst.overflow

\* the callback slots of a configuration
CallbackFields == {"onHeightChanged", "onError", "onConnectionError"}

\* payload is an object that holds a function in a callback slot
HoldsCallback(payload) ==
  \E f \in CallbackFields \cap DOMAIN payload : payload[f] # "unset"

\* C33: no message the SDK hands to postMessage (handshake, init-route,
\* route-sync, config-update of the overflow payload or of updateConfig) has a
\* payload that holds a callback such as onHeightChanged, onError or
\* onConnectionError
C33_PayloadsSerializable ==
  sdk.stage = "live" =>
    \A i \in 1..Len(sdk.inst.posted) : ~HoldsCallback(sdk.inst.posted[i].payload)

\* the number of times x occurs in the sequence seq
Occurrences(seq, x) == Cardinality({ i \in 1..Len(seq) : seq[i] = x })

\* C34: when a listener calls off on itself or on another listener of the same
\* type while a message of that type is dispatched, every listener that was
\* registered when the dispatch began and is still registered after it has
\* been invoked exactly once for the message
C34_ReentrantOffKeepsOthers ==
  last.op = "dispatch" =>
    \A cb \in ReentrantCallbacks :
      ( /\ Occurrences(last.arg.before, cb) = 1
        /\ Occurrences(eventListeners[last.arg.type], cb) = 1 )
          => Occurrences(invoked, cb) = 1

\* a promise returned by render is neither resolved nor rejected
RenderPending ==
  /\ sdk.stage = "live"
  /\ \/ sdk.inst.promise = "pending"
     \/ sdk.inst.abandoned.loading
     \/ sdk.inst.abandoned.fired

\* C35: every promise returned by render is eventually resolved or rejected
\* when the load event of its iframe is eventually delivered, also when
\* destroy() is called before the load event is handled
C35_RenderSettles == RenderPending ~> ~RenderPending

\* the callbacks a configuration of the host page names
ConfiguredCallbacks == {"onHeightA", "onHeightB", "onErrorA", "onErrorB"}

\* C36: one message of the iframe invokes each configured callback
\* (onHeightChanged, onError, onConnectionError) at most once, because at most
\* one Communicator of the instance has a handler on the window and callbacks
\* in its registry, also after the load event has fired again
C36_CallbackInvokedOnce ==
  ( /\ sdk.stage = "live"
    /\ sdk.last.op = "message" ) =>
      \A cb \in ConfiguredCallbacks : Occurrences(sdk.inst.invoked, cb) <= 1

ConfiguredFor(config, type) ==
  IF type = HEIGHT_CHANGED THEN config.onHeightChanged ELSE config.onError

\* C38: after updateConfig has replaced or added onHeightChanged, onError or
\* onConnectionError on a loaded SDK, a message of the matching type invokes
\* the callback of the configuration in force and none supplied before
C38_CurrentCallbacks ==
  ( /\ sdk.stage = "live"
    /\ sdk.last.op = "message"
    /\ sdk.last.arg.before.communicator # NoCommunicator ) =>
      \A cb \in ConfiguredCallbacks :
        Occurrences(sdk.inst.invoked, cb) >= 1
          <=> cb = ConfiguredFor(sdk.inst.config, sdk.last.arg.type)

\* C39: initialize(config) throws exactly when the validation of the merged
\* configuration yields at least one error, warnings alone never make it
\* throw, and when it throws the stored configuration is the one from before
\* the call
C39_InitializeThrows ==
  ( /\ sdk.stage = "live"
    /\ sdk.last.op = "initialize" ) =>
      LET merged == Spread(sdk.last.arg.before, sdk.last.arg.config)
      IN  /\ sdk.inst.threw <=> ValidateConfig(merged).errors # <<>>
          /\ sdk.inst.threw => sdk.inst.config = sdk.last.arg.before

\* C40: a host-to-iframe sync or a navigateToRoute whose route-sync message
\* is dropped because the content window is unreachable leaves the current
\* route unchanged
C40_RouteOnlyWhenDelivered ==
  [][ ( /\ last'.op \in {"hashchange", "navigateToRoute"}
        /\ ~contentWindow )
        => currentRoute' = currentRoute ]_vars

=============================================================================
